---- MODULE Spec2Model ----
(***************************************************************************)
(* Model of the shopping assistant's preference engine:                    *)
(*   services/ner_service.py, services/enhanced_preference_service.py,     *)
(*   models/preferences.py, services/session_manager.py, main.py (cache),  *)
(*   workflows/conversation_flow.py, ui/gradio_interface.py.               *)
(*                                                                         *)
(* Texts are sequences of word tokens.  The vocabulary of the inputs is    *)
(* chosen so that a keyword or a reference value occurs in a text only as  *)
(* whole tokens: there the code's character-level tests (str.find, `in`,   *)
(* \b-anchored regexes) agree with the token-level tests below.  Inputs    *)
(* are single sentences (no "." token), so a capture group ([^.]+) runs    *)
(* to the end of the text.                                                 *)
(*                                                                         *)
(* Confidences are percentages (0.95 -> 95); prices are whole numbers;     *)
(* None is the Python None of an unset price.                              *)
(***************************************************************************)
EXTENDS Integers, Sequences, FiniteSets, TLC

None == -1

\* A JSON value of the fallback extractor's answer that is not a string
\* (a number, null, a nested object) where the code expects a string.
NonStr == "<non-string>"

-----------------------------------------------------------------------------
(* Sequence helpers (Python list operations)                               *)

Range(s) == {s[i] : i \in 1..Len(s)}

\* x in list
InList(x, s) == \E i \in 1..Len(s) : s[i] = x

RECURSIVE Concat(_)
\* the concatenation of a sequence of sequences
Concat(ss) == IF ss = <<>> THEN <<>> ELSE Head(ss) \o Concat(Tail(ss))

\* [x for x in new if x not in cur]
NotIn(new, cur) == SelectSeq(new, LAMBDA x : ~InList(x, cur))

\* cur.extend([x for x in new if x not in cur])
ExtendNew(cur, new) == cur \o NotIn(new, cur)

RECURSIVE RemoveFirst(_, _)
\* list.remove(x): drops the first occurrence (the caller tests x in list)
RemoveFirst(s, x) ==
    IF s = <<>> THEN <<>>
    ELSE IF Head(s) = x THEN Tail(s)
    ELSE <<Head(s)>> \o RemoveFirst(Tail(s), x)

RECURSIVE RemoveEach(_, _)
\* for x in xs: if x in cur: cur.remove(x)
RemoveEach(cur, xs) ==
    IF xs = <<>> THEN cur
    ELSE RemoveEach(IF InList(Head(xs), cur) THEN RemoveFirst(cur, Head(xs)) ELSE cur,
                    Tail(xs))

-----------------------------------------------------------------------------
(* Reference tables (config/settings.py), restricted to the values the     *)
(* modelled inputs and fallback answers can name.  Each table is written   *)
(* in one iteration order of the Python set or dict it models.             *)

VALID_COLORS_ITER == <<"black", "brown", "blue">>
VALID_COLORS == Range(VALID_COLORS_ITER)

VALID_BRANDS_ITER == <<"Guess", "Calvin Klein", "Cellini", "Cellini Sport">>
VALID_BRANDS == Range(VALID_BRANDS_ITER)

BAG_CATEGORIES_ITER == <<"tote bags", "backpacks">>
BAG_CATEGORIES == Range(BAG_CATEGORIES_ITER)

\* abbreviation -> canonical brand
BRAND_CORRECTIONS ==
    << [key |-> "ck", value |-> "Calvin Klein"],
       [key |-> "calvin", value |-> "Calvin Klein"] >>

\* CategoryExtractor.category_corrections and the equal table inside
\* _validate_categories
CATEGORY_CORRECTIONS ==
    << [key |-> "tote", value |-> "tote bags"],
       [key |-> "tote bag", value |-> "tote bags"],
       [key |-> "backpack", value |-> "backpacks"] >>

\* ColorExtractor color_variations whose standard colour is a valid colour
COLOR_VARIATIONS ==
    << [key |-> "light blue", value |-> "blue"] >>

-----------------------------------------------------------------------------
(* Strings: str.lower() and the words of a string, as tables over the      *)
(* vocabulary.                                                             *)

\* str.lower().strip()
Lower(v) ==
    CASE v = "Guess" -> "guess"
      [] v = "GUESS" -> "guess"
      [] v = "Calvin Klein" -> "calvin klein"
      [] v = "Tote Bags" -> "tote bags"
      [] v = "I" -> "i"
      [] v = "Only" -> "only"
      [] v = "Gucci" -> "gucci"
      [] v = "Cellini" -> "cellini"
      [] v = "Sport" -> "sport"
      [] v = "Cellini Sport" -> "cellini sport"
      [] OTHER -> v

\* the words of a (lower-case) string
Words(v) ==
    CASE v = "calvin klein" -> <<"calvin", "klein">>
      [] v = "tote bags" -> <<"tote", "bags">>
      [] v = "tote bag" -> <<"tote", "bag">>
      [] v = "light blue" -> <<"light", "blue">>
      [] v = "change to" -> <<"change", "to">>
      [] v = "switch to" -> <<"switch", "to">>
      [] v = "along with" -> <<"along", "with">>
      [] v = "in addition" -> <<"in", "addition">>
      [] v = "show more options" -> <<"show", "more", "options">>
      [] v = "crossbody bags" -> <<"crossbody", "bags">>
      [] v = "cellini sport" -> <<"cellini", "sport">>
      [] OTHER -> <<v>>

\* text.lower()
LowerText(text) == [i \in 1..Len(text) |-> Lower(text[i])]

\* the positions at which the words kw occur in the lower-cased text,
\* ascending (str.find loop / finditer of a \b-anchored literal)
FindAll(text, kw) ==
    LET lt == LowerText(text)
        n == Len(kw)
        hit(i) == i + n - 1 <= Len(lt) /\ SubSeq(lt, i, i + n - 1) = kw
    IN SelectSeq([i \in 1..Len(lt) |-> i], hit)

\* kw in text.lower()
Contains(text, kw) == FindAll(text, kw) # <<>>

\* float(match.group(1)) of a number token; None when the token is no number
ParseFloat(tok) ==
    CASE tok = "0" -> 0
      [] tok = "100" -> 100
      [] tok = "150" -> 150
      [] tok = "200" -> 200
      [] OTHER -> None

-----------------------------------------------------------------------------
(* Entity extractors (services/ner_service.py).  An extraction is          *)
(* [value, confidence, start_pos, end_pos]; positions are token indexes,   *)
(* end_pos exclusive.                                                      *)

\* BaseEntityExtractor._create_extraction for every hit of the words of
\* `key` in the text
Hits(text, key, value, confidence) ==
    LET kw == Words(key)
        ps == FindAll(text, kw)
    IN [j \in 1..Len(ps) |->
          [value |-> value, confidence |-> confidence,
           start_pos |-> ps[j], end_pos |-> ps[j] + Len(kw)]]

RECURSIVE InsertByConf(_, _)
\* one step of the stable sort by confidence, descending
InsertByConf(sorted, e) ==
    IF sorted = <<>> THEN <<e>>
    ELSE IF Head(sorted).confidence >= e.confidence
         THEN <<Head(sorted)>> \o InsertByConf(Tail(sorted), e)
         ELSE <<e>> \o sorted

\* the candidates left in the order they were found
Unsorted(es) == es

RECURSIVE SortByConf(_)
\* sorted(extractions, key=confidence, reverse=True): stable
SortByConf(es) ==
    IF es = <<>> THEN <<>>
    ELSE InsertByConf(SortByConf(SubSeq(es, 1, Len(es) - 1)), es[Len(es)])

\* extraction.start_pos < existing.end_pos and extraction.end_pos > existing.start_pos
Overlap(a, b) == a.start_pos < b.end_pos /\ a.end_pos > b.start_pos

RECURSIVE KeepNonOverlapping(_, _)
KeepNonOverlapping(filtered, rest) ==
    IF rest = <<>> THEN filtered
    ELSE LET e == Head(rest)
         IN KeepNonOverlapping(
              IF \E i \in 1..Len(filtered) : Overlap(e, filtered[i])
              THEN filtered ELSE Append(filtered, e),
              Tail(rest))

\* _deduplicate_extractions (the same code in the three dictionary extractors)
DeduplicateExtractions(es) == KeepNonOverlapping(<<>>, SortByConf(es))

\* the fuzzy pass of BrandExtractor.extract: the words of the vocabulary whose
\* best SequenceMatcher ratio against a valid brand (or one word of it) is
\* above 0.8, with the brand and the ratio in percent
FUZZY_MATCHES ==
    << [word |-> "guess", brand |-> "Guess", similarity |-> 100],
       [word |-> "calvin", brand |-> "Calvin Klein", similarity |-> 100],
       [word |-> "klein", brand |-> "Calvin Klein", similarity |-> 100],
       [word |-> "cellini", brand |-> "Cellini", similarity |-> 100],
       [word |-> "cellini", brand |-> "Cellini Sport", similarity |-> 100],
       [word |-> "sport", brand |-> "Cellini Sport", similarity |-> 100] >>

\* _fuzzy_match_brand: the first brand, in the iteration order of the
\* table, of the highest ratio ("if similarity > best_similarity")
FuzzyMatchBrand(word, valid_brands) ==
    LET ms == {m \in Range(FUZZY_MATCHES) : m.word = word}
        best == CHOOSE x \in {m.similarity : m \in ms} :
                    \A m \in ms : m.similarity <= x
        first == SelectSeq(valid_brands,
                     LAMBDA b : \E m \in ms : m.brand = b /\ m.similarity = best)
    IN IF ms = {} THEN [brand |-> "", similarity |-> 0]
       ELSE [brand |-> first[1], similarity |-> best]

\* Strategy 3 of BrandExtractor.extract: one extraction per word of the text
\* that matches, placed at the first occurrence of the word
FuzzyHits(text, valid_brands) ==
    LET lt == LowerText(text)
        one(i) ==
            LET m == FuzzyMatchBrand(lt[i], valid_brands)
                first == FindAll(text, <<lt[i]>>)[1]
            IN IF m.similarity <= 80 THEN <<>>
               ELSE << [value |-> m.brand,
                        confidence |-> (m.similarity * 70) \div 100,
                        start_pos |-> first, end_pos |-> first + 1] >>
    IN Concat([i \in 1..Len(lt) |-> one(i)])

\* BrandExtractor.extract, valid_brands in the iteration order of the set
BrandExtractor(text, valid_brands) ==
    LET dict == Concat([i \in 1..Len(valid_brands) |->
                    Hits(text, Lower(valid_brands[i]), valid_brands[i], 95)])
        corr == Concat([i \in 1..Len(BRAND_CORRECTIONS) |->
                    Hits(text, BRAND_CORRECTIONS[i].key, BRAND_CORRECTIONS[i].value, 85)])
    IN DeduplicateExtractions(dict \o (dict \o corr) \o FuzzyHits(text, valid_brands))

\* ColorExtractor.extract, valid_colors in the iteration order of the set
ColorExtractor(text, valid_colors) ==
    LET dict == Concat([i \in 1..Len(valid_colors) |->
                    Hits(text, Lower(valid_colors[i]), valid_colors[i], 95)])
        vars == Concat([i \in 1..Len(COLOR_VARIATIONS) |->
                    Hits(text, COLOR_VARIATIONS[i].key, COLOR_VARIATIONS[i].value, 85)])
    IN DeduplicateExtractions(dict \o (dict \o vars))

\* CategoryExtractor.extract, valid_categories in the iteration order of the
\* set
CategoryExtractor(text, valid_categories) ==
    LET exact == Concat([i \in 1..Len(valid_categories) |->
                    Hits(text, valid_categories[i], valid_categories[i], 95)])
        corr == Concat([i \in 1..Len(CATEGORY_CORRECTIONS) |->
                    Hits(text, CATEGORY_CORRECTIONS[i].key, CATEGORY_CORRECTIONS[i].value, 85)])
    IN DeduplicateExtractions(exact \o corr)

\* the extractors of a process whose sets iterate in the order written above
BrandExtract(text) == BrandExtractor(text, VALID_BRANDS_ITER)

ColorExtract(text) == ColorExtractor(text, VALID_COLORS_ITER)

CategoryExtract(text) == CategoryExtractor(text, BAG_CATEGORIES_ITER)

RECURSIVE UniqueByLower(_, _)
UniqueByLower(es, seen) ==
    IF es = <<>> THEN <<>>
    ELSE IF Lower(Head(es).value) \in seen
         THEN UniqueByLower(Tail(es), seen)
         ELSE <<Head(es).value>> \o
              UniqueByLower(Tail(es), seen \cup {Lower(Head(es).value)})

\* NERResult.get_unique_values_by_type
GetUniqueValues(es) == UniqueByLower(SortByConf(es), {})

\* PriceExtractor.price_patterns: the single-number templates
PRICE_PATTERNS ==
    << [kw |-> <<"above">>, type |-> "min", confidence |-> 95],
       [kw |-> <<"over">>, type |-> "min", confidence |-> 95],
       [kw |-> <<"more", "than">>, type |-> "min", confidence |-> 90],
       [kw |-> <<"greater", "than">>, type |-> "min", confidence |-> 90],
       [kw |-> <<"at", "least">>, type |-> "min", confidence |-> 90],
       [kw |-> <<"minimum">>, type |-> "min", confidence |-> 90],
       [kw |-> <<"below">>, type |-> "max", confidence |-> 95],
       [kw |-> <<"under">>, type |-> "max", confidence |-> 95],
       [kw |-> <<"less", "than">>, type |-> "max", confidence |-> 90],
       [kw |-> <<"cheaper", "than">>, type |-> "max", confidence |-> 85],
       [kw |-> <<"maximum">>, type |-> "max", confidence |-> 90],
       [kw |-> <<"up", "to">>, type |-> "max", confidence |-> 90],
       [kw |-> <<"exactly">>, type |-> "exact", confidence |-> 90],
       [kw |-> <<"around">>, type |-> "around", confidence |-> 80],
       [kw |-> <<"about">>, type |-> "around", confidence |-> 80] >>

IsNumber(text, i) == i <= Len(text) /\ ParseFloat(text[i]) # None

\* the matches of one single-number template: the keyword, then a number
PriceHits(text, pat) ==
    LET n == Len(pat.kw)
        ps == SelectSeq(FindAll(text, pat.kw), LAMBDA i : IsNumber(text, i + n))
    IN [j \in 1..Len(ps) |->
          [price_type |-> pat.type, price_value |-> ParseFloat(text[ps[j] + n]),
           price_min |-> None, price_max |-> None,
           confidence |-> pat.confidence,
           start_pos |-> ps[j], end_pos |-> ps[j] + n + 1]]

Min2(a, b) == IF a <= b THEN a ELSE b
Max2(a, b) == IF a >= b THEN a ELSE b

\* "between A and|to B": both bounds, ordered
RangeHits(text) ==
    LET ok(i) == /\ IsNumber(text, i + 1)
                 /\ i + 2 <= Len(text) /\ Lower(text[i + 2]) \in {"and", "to"}
                 /\ IsNumber(text, i + 3)
        ps == SelectSeq(FindAll(text, <<"between">>), ok)
    IN [j \in 1..Len(ps) |->
          LET a == ParseFloat(text[ps[j] + 1])
              b == ParseFloat(text[ps[j] + 3])
          IN [price_type |-> "range", price_value |-> None,
              price_min |-> Min2(a, b), price_max |-> Max2(a, b),
              confidence |-> 95,
              start_pos |-> ps[j], end_pos |-> ps[j] + 4]]

\* PriceExtractor.extract: every template in the order of the table; the
\* "N+" and "A-B" templates need a "+" or "-" no modelled input holds
PriceExtract(text) ==
    LET single(k) == Concat([i \in 1..Len(PRICE_PATTERNS) |->
                        IF PRICE_PATTERNS[i].type \in k
                        THEN PriceHits(text, PRICE_PATTERNS[i]) ELSE <<>>])
    IN single({"min", "max"}) \o RangeHits(text) \o single({"exact", "around"})

\* [a-z]+ under re.IGNORECASE: a token of letters only
IsAlpha(tok) == ParseFloat(tok) = None /\ tok \notin {"don't", "+", "-", "$", NonStr}

\* ExclusionExtractor.exclusion_patterns, in order.  cap is the shape of the
\* capture group: "rest" ([^.]+), "words" (a run of [a-z]+ words),
\* "words_bags" (such a run followed by bag/bags), "words_ones" (followed by
\* bag/bags/one/ones); optnot marks a (?:not\s+)? before the group.
EXCLUSION_PATTERNS ==
    << [kw |-> <<"excluding">>, optnot |-> FALSE, cap |-> "rest"],
       [kw |-> <<"don't", "want">>, optnot |-> FALSE, cap |-> "rest"],
       [kw |-> <<"no">>, optnot |-> FALSE, cap |-> "words_bags"],
       [kw |-> <<"avoid">>, optnot |-> FALSE, cap |-> "rest"],
       [kw |-> <<"not">>, optnot |-> FALSE, cap |-> "words_bags"],
       [kw |-> <<"everything", "but">>, optnot |-> TRUE, cap |-> "words"],
       [kw |-> <<"anything", "except">>, optnot |-> FALSE, cap |-> "rest"],
       [kw |-> <<"anything", "but">>, optnot |-> TRUE, cap |-> "words"],
       [kw |-> <<"but", "not">>, optnot |-> FALSE, cap |-> "words_ones"],
       [kw |-> <<"any", "bag", "except">>, optnot |-> FALSE, cap |-> "words"],
       [kw |-> <<"except">>, optnot |-> FALSE, cap |-> "words"],
       [kw |-> <<"any", "color", "excluding">>, optnot |-> FALSE, cap |-> "rest"],
       [kw |-> <<"any", "color", "but">>, optnot |-> TRUE, cap |-> "words"],
       [kw |-> <<"i", "hate">>, optnot |-> FALSE, cap |-> "rest"],
       [kw |-> <<"dislike">>, optnot |-> FALSE, cap |-> "rest"],
       [kw |-> <<"never">>, optnot |-> FALSE, cap |-> "rest"] >>

\* the end (exclusive) of the longest run of [a-z]+ words starting at j
RECURSIVE AlphaRunEnd(_, _)
AlphaRunEnd(text, j) ==
    IF j <= Len(text) /\ IsAlpha(text[j]) THEN AlphaRunEnd(text, j + 1) ELSE j

\* the captured words of one match of a pattern whose keyword ends before
\* token j; <<>> when the group cannot match there
Capture(text, pat, j0) ==
    LET lt == LowerText(text)
        j == IF pat.optnot /\ j0 < Len(lt) /\ lt[j0] = "not" /\ IsAlpha(lt[j0 + 1])
             THEN j0 + 1 ELSE j0
        e == AlphaRunEnd(lt, j)
        stops == IF pat.cap = "words_bags" THEN {"bag", "bags"}
                 ELSE {"bag", "bags", "one", "ones"}
        \* greedy: the last stop word of the run that leaves a non-empty group
        ends == {k \in (j + 1)..(e - 1) : lt[k] \in stops}
    IN CASE pat.cap = "rest" -> SubSeq(lt, j, Len(lt))
         [] pat.cap = "words" -> SubSeq(lt, j, e - 1)
         [] OTHER -> IF ends = {} THEN <<>>
                     ELSE SubSeq(lt, j, (CHOOSE k \in ends : \A m \in ends : m <= k) - 1)

\* ExclusionExtractor.extract: per pattern, the excluded phrase of its match
\* (an input holds the keyword of a pattern at most once); confidence 0.90
ExclusionExtract(text) ==
    LET one(pat) ==
            LET ps == FindAll(text, pat.kw)
                cap == IF ps = <<>> THEN <<>> ELSE Capture(text, pat, ps[1] + Len(pat.kw))
            IN IF cap = <<>> THEN <<>> ELSE << [value |-> cap, confidence |-> 90] >>
    IN Concat([i \in 1..Len(EXCLUSION_PATTERNS) |-> one(EXCLUSION_PATTERNS[i])])

\* the values of a reference table contained in an excluded phrase, in the
\* table's iteration order: [v for v in table if v.lower() in excluded_text]
NamedIn(phrase, table) ==
    SelectSeq(table, LAMBDA v : Contains(phrase, Words(Lower(v))))

RECURSIVE CrossReference(_, _, _)
\* one reference table of _process_ner_exclusions over all exclusions
CrossReference(exclusions, table, acc) ==
    IF exclusions = <<>> THEN acc
    ELSE CrossReference(Tail(exclusions), table,
                        ExtendNew(acc, NamedIn(Head(exclusions).value, table)))

\* the iteration orders of the three reference sets in one process
ITER ==
    [colors |-> VALID_COLORS_ITER, brands |-> VALID_BRANDS_ITER,
     categories |-> BAG_CATEGORIES_ITER]

\* _process_ner_exclusions, the reference sets iterating in the orders iter
process_ner_exclusions(exclusions, iter) ==
    [excluded_colors |-> CrossReference(exclusions, iter.colors, <<>>),
     excluded_brands |-> CrossReference(exclusions, iter.brands, <<>>),
     excluded_categories |-> CrossReference(exclusions, iter.categories, <<>>)]

ProcessNERExclusions(exclusions) == process_ner_exclusions(exclusions, ITER)

RECURSIVE FoldPrices(_, _)
\* the price loop of _extract_with_ner over the price entities, in order;
\* acc is [price_min, price_max] of ner_preferences
FoldPrices(es, acc) ==
    IF es = <<>> THEN acc
    ELSE LET e == Head(es)
             v == e.price_value
             truthy(x) == x # None /\ x # 0
             next ==
               CASE e.price_type = "min" ->
                      IF truthy(v) /\ (acc.price_min = None \/ v > acc.price_min)
                      THEN [acc EXCEPT !.price_min = v] ELSE acc
                 [] e.price_type = "max" ->
                      IF truthy(v) /\ (acc.price_max = None \/ v < acc.price_max)
                      THEN [acc EXCEPT !.price_max = v] ELSE acc
                 [] e.price_type = "range" ->
                      [price_min |-> IF truthy(e.price_min) THEN e.price_min ELSE acc.price_min,
                       price_max |-> IF truthy(e.price_max) THEN e.price_max ELSE acc.price_max]
                 [] e.price_type = "around" ->
                      IF truthy(v)
                      THEN [price_min |-> Max2(0, v - (v * 2) \div 10),
                            price_max |-> v + (v * 2) \div 10]
                      ELSE acc
                 [] OTHER -> acc
         IN FoldPrices(Tail(es), next)

\* _extract_with_ner: the UserPreferences built from one NER pass, the
\* reference sets iterating in the orders iter
extract_with_ner(text, iter) ==
    LET prices == FoldPrices(PriceExtract(text), [price_min |-> None, price_max |-> None])
        excl == process_ner_exclusions(ExclusionExtract(text), iter)
    IN [brands |-> GetUniqueValues(BrandExtractor(text, iter.brands)),
        colors |-> GetUniqueValues(ColorExtractor(text, iter.colors)),
        categories |-> GetUniqueValues(CategoryExtractor(text, iter.categories)),
        price_min |-> prices.price_min,
        price_max |-> prices.price_max,
        excluded_colors |-> excl.excluded_colors,
        excluded_brands |-> excl.excluded_brands,
        excluded_categories |-> excl.excluded_categories]

ExtractWithNER(text) == extract_with_ner(text, ITER)

REPLACE_KEYWORDS == <<"instead", "change to", "switch to", "only", "just", "replace">>

\* any(keyword in user_lower for keyword in replace_keywords)
HasReplaceKeyword(text) ==
    \E i \in 1..Len(REPLACE_KEYWORDS) : Contains(text, Words(REPLACE_KEYWORDS[i]))

\* _analyze_intent: TRUE is append mode, FALSE is replace mode
AnalyzeIntent(text) == ~HasReplaceKeyword(text)

-----------------------------------------------------------------------------
(* UserPreferences (models/preferences.py) and the Python objects behind   *)
(* it.  A list field of a session's UserPreferences is a reference to a    *)
(* list object.  The only list objects two holders can share are the lists *)
(* of a fallback answer kept in the in-memory cache (from_dict copies no   *)
(* list, and _merge_llm_preferences assigns them): alias[s][f] = k > 0     *)
(* says that field f of session s IS the list f of cache entry k;          *)
(* alias[s][f] = 0 says the list is private.  prefs[s][f] always holds the *)
(* contents.  excluded_materials is never written and is left out.         *)

MaxSessions == 2
MaxCache == 3
MaxOps == 2
MaxSessionOps == 3
MaxPriceOps == 3
MaxFallbackOps == 3
MaxFailing == 1
MaxValidationOps == 2
MaxWorkflowOps == 2

\* the longest list of results a product search finds
MaxResults == 20

\* product searches in one run of the paging of a session
MaxSearches == 3
MaxPos == 2
MaxCandidates == 3
MaxRequests == 2

SessionIds == 1..MaxSessions

\* the requests the executor may be running
Requests == 1..MaxRequests

LIST_FIELDS ==
    <<"brands", "categories", "colors", "materials", "features",
      "excluded_colors", "excluded_brands", "excluded_categories">>

\* the fields _merge_llm_preferences assigns from the fallback answer
ALIAS_FIELDS == {"brands", "categories", "colors", "materials"}

\* UserPreferences()
EmptyPrefs ==
    [price_min |-> None, price_max |-> None,
     brands |-> <<>>, categories |-> <<>>, colors |-> <<>>,
     materials |-> <<>>, features |-> <<>>,
     excluded_colors |-> <<>>, excluded_brands |-> <<>>,
     excluded_categories |-> <<>>]

NoAlias == [f \in ALIAS_FIELDS |-> 0]

VARIABLES
    created,    \* the session ids of SessionManager._sessions
    prefs,      \* prefs[s]: current_preferences of session s's service, by value
    alias,      \* alias[s][f]: the cache entry whose list the field is, or 0
    cache,      \* Cache.memory_cache: the 'prefs' entries, in insertion order
    nops,       \* the number of operations so far (bounds the exploration)
    last,       \* the last operation: its arguments and outcome
    inflight    \* inflight[r]: where request r of the thread pool stands

vars == <<created, prefs, alias, cache, nops, last, inflight>>

\* the objects an operation works on
World == [prefs |-> prefs, alias |-> alias, cache |-> cache]

AliasOf(w, s, f) == IF f \in ALIAS_FIELDS THEN w.alias[s][f] ELSE 0

\* self.current_preferences.f = <a new list v>
SetList(w, s, f, v) ==
    [w EXCEPT !.prefs[s][f] = v,
              !.alias[s] = IF f \in ALIAS_FIELDS THEN [@ EXCEPT ![f] = 0] ELSE @]

\* self.current_preferences.f = llm_preferences.f, the list of cache entry k
BindList(w, s, f, k) ==
    [w EXCEPT !.prefs[s][f] = w.cache[k].d[f], !.alias[s][f] = k]

\* an in-place change (extend, remove, clear) of the list object behind field
\* f of session s, leaving it with contents v: every holder of the object
\* sees it
MutateList(w, s, f, v) ==
    LET k == AliasOf(w, s, f)
    IN IF k = 0 THEN [w EXCEPT !.prefs[s][f] = v]
       ELSE [w EXCEPT
               !.cache[k].d[f] = v,
               !.prefs = [t \in SessionIds |->
                            IF w.alias[t][f] = k THEN [w.prefs[t] EXCEPT ![f] = v]
                            ELSE w.prefs[t]]]

\* a merge that assigns the new values where the code extends the list
ExtendFieldAssigning(w, s, f, new) ==
    IF new = <<>> THEN w ELSE MutateList(w, s, f, new)

\* cur.extend([x for x in new if x not in cur]) when new is non-empty
ExtendField(w, s, f, new) ==
    IF new = <<>> THEN w ELSE MutateList(w, s, f, ExtendNew(w.prefs[s][f], new))

SetPrice(w, s, f, v) == IF v = None THEN w ELSE [w EXCEPT !.prefs[s][f] = v]

\* _apply_ner_preferences
ApplyNERPreferences(w, s, ner) ==
    LET w1 == ExtendField(w, s, "brands", ner.brands)
        w2 == ExtendField(w1, s, "colors", ner.colors)
        w3 == ExtendField(w2, s, "categories", ner.categories)
        w4 == SetPrice(w3, s, "price_min", ner.price_min)
        w5 == SetPrice(w4, s, "price_max", ner.price_max)
        w6 == ExtendField(w5, s, "excluded_colors", ner.excluded_colors)
        w7 == ExtendField(w6, s, "excluded_brands", ner.excluded_brands)
    IN ExtendField(w7, s, "excluded_categories", ner.excluded_categories)

-----------------------------------------------------------------------------
(* The fallback extractor behind the cache (main.py,                        *)
(* CachedAzureService.extract_preferences_cached, in-memory cache).         *)

\* a fallback answer with the given keys; UserPreferences.from_dict gives
\* every missing key its default
Delta(d) == [f \in DOMAIN EmptyPrefs |-> IF f \in DOMAIN d THEN d[f] ELSE EmptyPrefs[f]]

\* {} : no answer (service unavailable, call failed, or nothing extracted)
NoAnswer == EmptyPrefs

\* the entry of the cache for a key, or 0: _cache.get(key)
CacheGet(c, text, snap) ==
    IF \E k \in 1..Len(c) : c[k].text = text /\ c[k].snap = snap
    THEN CHOOSE k \in 1..Len(c) : c[k].text = text /\ c[k].snap = snap
    ELSE 0

\* extract_preferences_cached(user_input, current_preferences.to_dict()):
\* the world after the call and the entry k whose dict is returned (0: {}).
\* A hit returns the cached dict itself; a miss stores the parsed answer and
\* returns that same object.
ExtractPreferencesCached(w, s, text, llm) ==
    LET hit == CacheGet(w.cache, text, w.prefs[s])
    IN IF hit # 0 THEN [w |-> w, k |-> hit]
       ELSE IF llm = NoAnswer THEN [w |-> w, k |-> 0]
       ELSE [w |-> [w EXCEPT !.cache =
                      Append(@, [text |-> text, snap |-> w.prefs[s], d |-> llm])],
             k |-> Len(w.cache) + 1]

-----------------------------------------------------------------------------
(* NERService.extract_entities: every registered extractor in turn, each   *)
(* in its own try block, then the spaCy pass.                              *)

\* UICommandExtractor.ui_patterns, in order, word by word: alts are the
\* words a position accepts, opt marks an optional position
UI_PATTERNS ==
    LET w(a) == [opt |-> FALSE, alts |-> a]
        o(a) == [opt |-> TRUE, alts |-> a]
        things == {"option", "options", "result", "results", "product", "products"}
        pages == {"page", "option", "options", "result", "results"}
    IN << <<w({"show"}), w({"more"}), w(things)>>,
          <<o({"some"}), w({"more"}), w({"option", "options"})>>,
          <<o({"some"}), w({"more"}), w({"result", "results"})>>,
          <<w({"see"}), w({"more"}), w(things)>>,
          <<w({"display"}), w({"more"}), w(things)>>,
          <<w({"next"}), w(pages)>>,
          <<w({"previous"}), w(pages)>>,
          <<w({"go"}), w({"back"})>>,
          <<w({"start"}), w({"over"})>>,
          <<w({"clear"}), w({"all", "preferences"})>>,
          <<w({"help"}), w({"me"})>>,
          <<w({"what"}), w({"can", "do"}), w({"you"})>>,
          <<w({"how"}), o({"do"}), w({"i", "can"})>>,
          <<w({"tell"}), w({"me"}), w({"more", "about"})>>,
          <<w({"thank"}), w({"you"})>>,
          <<w({"thanks"})>>,
          <<w({"okay"})>>,
          <<w({"ok"})>>,
          <<w({"yes"})>>,
          <<w({"no"})>> >>

RECURSIVE MatchAt(_, _, _)
\* the end (exclusive) of the match of a pattern starting at word i of the
\* lower-cased text, 0 when there is none; an optional word is tried first
MatchAt(lt, i, slots) ==
    IF slots = <<>> THEN i
    ELSE LET here == IF i <= Len(lt) /\ lt[i] \in Head(slots).alts
                     THEN MatchAt(lt, i + 1, Tail(slots)) ELSE 0
         IN IF here # 0 THEN here
            ELSE IF Head(slots).opt THEN MatchAt(lt, i, Tail(slots)) ELSE 0

RECURSIVE UIMatches(_, _, _)
\* pattern.finditer(text): the matches of one pattern, left to right
UIMatches(text, slots, i) ==
    IF i > Len(text) THEN <<>>
    ELSE LET e == MatchAt(LowerText(text), i, slots)
         IN IF e = 0 THEN UIMatches(text, slots, i + 1)
            ELSE << [value |-> SubSeq(text, i, e - 1), confidence |-> 95,
                     start_pos |-> i, end_pos |-> e] >> \o UIMatches(text, slots, e)

\* UICommandExtractor.extract (no modelled input holds a longer word with a
\* pattern inside it, as "not" holds "no")
UICommandExtract(text) ==
    Concat([p \in 1..Len(UI_PATTERNS) |-> UIMatches(text, UI_PATTERNS[p], 1)])

\* self.extractors: the registered entity types
EXTRACTORS == {"brand", "color", "category", "price", "exclusion", "ui_command"}

\* extractor.extract(text) of the extractor registered for a type
Extract(type, text) ==
    CASE type = "brand" -> BrandExtract(text)
      [] type = "color" -> ColorExtract(text)
      [] type = "category" -> CategoryExtract(text)
      [] type = "price" -> PriceExtract(text)
      [] type = "exclusion" -> ExclusionExtract(text)
      [] type = "ui_command" -> UICommandExtract(text)

\* the texts extract_entities is called with
NER_INPUTS ==
    { <<"no", "brown", "bags">>, <<"Guess", "tote", "above", "100">>,
      <<"show", "more", "options">> }

\* extractor.extract(text) for each of them, computed once
EXTRACTIONS == [text \in NER_INPUTS |-> [type \in EXTRACTORS |-> Extract(type, text)]]

\* an extraction as extract_entities sees it: its type, its strategy, the rest
Typed(es, type, strategy) ==
    [i \in 1..Len(es) |->
        [entity_type |-> type, extraction_strategy |-> strategy, e |-> es[i]]]

\* one pass of the loop without its try block: the exception goes on
ExtractPropagating(type, text, fails) ==
    IF type \in fails THEN [extractions |-> <<>>, raised |-> TRUE]
    ELSE [extractions |-> Typed(EXTRACTIONS[text][type], type, "extractor"),
          raised |-> FALSE]

\* one pass of the loop of extract_entities: the extractor of the type runs
\* in a try block; when it raises (type \in fails) the error is logged and
\* nothing is added
TryExtract(type, text, fails) ==
    IF type \in fails THEN [extractions |-> <<>>, raised |-> FALSE]
    ELSE [extractions |-> Typed(EXTRACTIONS[text][type], type, "extractor"),
          raised |-> FALSE]

\* _map_spacy_entity_type
MapSpacyEntityType(label) ==
    CASE label \in {"ORG", "PRODUCT"} -> "brand"
      [] label = "MONEY" -> "price"
      [] OTHER -> "none"

\* _extract_with_spacy over the entities ents of the document (none when
\* spaCy is not installed or its blank model is in use)
ExtractWithSpacy(ents) ==
    LET mapped == SelectSeq(ents, LAMBDA x : MapSpacyEntityType(x.label) # "none")
    IN [i \in 1..Len(mapped) |->
          [entity_type |-> MapSpacyEntityType(mapped[i].label),
           extraction_strategy |-> "spacy_ner",
           e |-> [value |-> mapped[i].text, confidence |-> 75]]]

\* extract_entities(text): order is the iteration order of the set
\* entity_types, fails the types whose extractor raises on this call
extract_entities(text, order, fails, ents) ==
    LET pass == [i \in 1..Len(order) |-> TryExtract(order[i], text, fails)]
    IN IF \E i \in 1..Len(order) : pass[i].raised
       THEN [entities |-> <<>>, raised |-> TRUE]
       ELSE [entities |-> Concat([i \in 1..Len(order) |-> pass[i].extractions])
                              \o ExtractWithSpacy(ents),
             raised |-> FALSE]

-----------------------------------------------------------------------------
(* The inputs explored.                                                    *)

INPUTS ==
    { <<"black", "bags">>,
      <<"excluding", "black">>,
      <<"only", "brown">>,
      <<"above", "100">>,
      <<"above", "150">>,
      <<"above", "100", "and", "above", "150">>,
      <<"under", "200">>,
      <<"no", "brown", "bags">>,
      <<"Guess", "tote">>,
      <<"excluding", "Guess", "tote", "bags">> }

LLM_ANSWERS ==
    { NoAnswer,
      Delta([colors |-> <<"brown">>, materials |-> <<"leather">>,
             features |-> <<"zipper", "ok">>]),
      Delta([colors |-> <<"black", "brown">>, excluded_colors |-> <<"black">>]),
      Delta([brands |-> <<"Gucci">>, features |-> <<NonStr>>]),
      Delta([categories |-> <<"hobo">>]) }

\* inputs stating prices, and fallback answers with and without a price
PRICE_INPUTS ==
    { <<"around", "150">>, <<"about", "100">>, <<"around", "0">>,
      <<"under", "200">>, <<"above", "100">>,
      <<"between", "100", "and", "200">>, <<"between", "200", "and", "100">>,
      <<"between", "0", "and", "200">> }

PRICE_ANSWERS == { NoAnswer, Delta([price_max |-> 150]) }

\* inputs and fallback answers naming brands and categories in spellings
\* the reference tables hold, correct, or do not know
VALIDATION_INPUTS ==
    { <<"Guess", "tote">>, <<"tote", "bags">>, <<"black", "bags">>,
      <<"only", "brown">> }

VALIDATION_ANSWERS ==
    { NoAnswer,
      Delta([brands |-> <<"Gucci">>]),
      Delta([brands |-> <<"GUESS", "ck">>]),
      Delta([categories |-> <<"Tote Bags">>]),
      Delta([categories |-> <<"tote">>]),
      Delta([categories |-> <<"hobo">>]),
      Delta([categories |-> <<"ok">>, features |-> <<"zipper", "thanks">>]) }

\* messages to the conversation workflow: turns that state preferences, the
\* reset commands (alone and inside a longer sentence), a paging request;
\* and the fallback answers to them
WORKFLOW_INPUTS ==
    { <<"black", "bags">>, <<"only", "brown">>,
      <<"clear", "preferences">>, <<"reset", "preferences">>,
      <<"start", "over">>,
      <<"please", "clear", "preferences", "right", "now">>,
      <<"show", "more">> }

WORKFLOW_ANSWERS ==
    { NoAnswer, Delta([colors |-> <<"brown">>]), Delta([categories |-> <<"hobo">>]) }

-----------------------------------------------------------------------------
(* EnhancedPreferenceService: the reconciliation steps.                    *)

\* the features a UI-command pattern matches (re.search over the feature)
UI_COMMAND_FEATURES == {"show more options", "thanks", "ok"}

IsUICommand(feature) == feature \in UI_COMMAND_FEATURES

\* _filter_ui_commands_from_features
FilterUICommandsFromFeatures(features) ==
    SelectSeq(features, LAMBDA x : ~IsUICommand(x))

\* one exclusion block of _merge_llm_preferences: extend the excluded list,
\* then remove each excluded value from the positive list, in place
MergeExclusion(w, s, pos, exc, excluded) ==
    IF excluded = <<>> THEN w
    ELSE LET w1 == MutateList(w, s, exc, ExtendNew(w.prefs[s][exc], excluded))
         IN MutateList(w1, s, pos, RemoveEach(w1.prefs[s][pos], excluded))

\* the append / replace branch of _merge_llm_preferences for one positive
\* list; the list is read from the dict of cache entry k when it is used
MergePositive(w, s, f, k, append) ==
    LET new == w.cache[k].d[f]
    IN IF new = <<>> THEN w
       ELSE IF append THEN MutateList(w, s, f, ExtendNew(w.prefs[s][f], new))
       ELSE BindList(w, s, f, k)

\* _merge_llm_preferences(llm_preferences, user_input), llm_preferences
\* being from_dict of the dict of cache entry k.  raised: the features hold
\* a non-string and pattern.search raises; the assignments made before stay.
MergeLLMPreferences(w, s, text, k) ==
    IF k = 0 THEN [w |-> w, raised |-> FALSE]
    ELSE
    LET append == AnalyzeIntent(text)
        \* the lists of the dict that no step before their use can change
        d == w.cache[k].d
        w1 == MergePositive(w, s, "brands", k, append)
        w2 == MergePositive(w1, s, "colors", k, append)
        w3 == MergePositive(w2, s, "categories", k, append)
        w4 == SetPrice(w3, s, "price_min", d.price_min)
        w5 == SetPrice(w4, s, "price_max", d.price_max)
        w6 == IF d.materials # <<>> THEN BindList(w5, s, "materials", k) ELSE w5
        w7 == IF d.features # <<>>
              THEN SetList(w6, s, "features", FilterUICommandsFromFeatures(d.features))
              ELSE w6
        w8 == MergeExclusion(w7, s, "colors", "excluded_colors", d.excluded_colors)
        w9 == MergeExclusion(w8, s, "brands", "excluded_brands", d.excluded_brands)
    IN IF InList(NonStr, d.features) THEN [w |-> w6, raised |-> TRUE]
       ELSE [w |-> MergeExclusion(w9, s, "categories", "excluded_categories",
                                  d.excluded_categories),
             raised |-> FALSE]

\* the patterns of _backup_exclusion_detection, in order; one: the group is
\* a single [a-z]+ word followed by bag/bags, else the rest of the text
BACKUP_PATTERNS ==
    << [kw |-> <<"excluding">>, one |-> FALSE],
       [kw |-> <<"don't", "want">>, one |-> FALSE],
       [kw |-> <<"no">>, one |-> TRUE],
       [kw |-> <<"avoid">>, one |-> FALSE],
       [kw |-> <<"not">>, one |-> TRUE],
       [kw |-> <<"everything", "but">>, one |-> FALSE],
       [kw |-> <<"anything", "except">>, one |-> FALSE] >>

\* match.group(1) of the first match of a backup pattern; <<>> when none
BackupCapture(text, pat) ==
    LET lt == LowerText(text)
        n == Len(pat.kw)
        ok(i) == IF pat.one
                 THEN i + n + 1 <= Len(lt) /\ IsAlpha(lt[i + n])
                      /\ lt[i + n + 1] \in {"bag", "bags"}
                 ELSE i + n <= Len(lt)
        ps == SelectSeq(FindAll(text, pat.kw), ok)
    IN IF ps = <<>> THEN <<>>
       ELSE IF pat.one THEN << lt[ps[1] + n] >>
       ELSE SubSeq(lt, ps[1] + n, Len(lt))

RECURSIVE BackupFold(_, _, _)
\* add_excluded_color for every valid color named by every pattern's match
BackupFold(text, pats, excluded) ==
    IF pats = <<>> THEN excluded
    ELSE BackupFold(text, Tail(pats),
                    ExtendNew(excluded,
                              NamedIn(BackupCapture(text, Head(pats)), VALID_COLORS_ITER)))

\* _backup_exclusion_detection
BackupExclusionDetection(w, s, text) ==
    MutateList(w, s, "excluded_colors",
               BackupFold(text, BACKUP_PATTERNS, w.prefs[s].excluded_colors))

\* dict lookup: the value of a key in a table of corrections, None if absent
\* key in table
HasCorrection(table, key) == \E i \in 1..Len(table) : table[i].key = key

\* table[key]
Corrected(table, key) == SelectSeq(table, LAMBDA r : r.key = key)[1].value

\* _validate_brands: the valid brands
ValidateBrands(brands) ==
    LET one(brand) ==
            LET exact == SelectSeq(VALID_BRANDS_ITER,
                                   LAMBDA vb : Lower(brand) = Lower(vb))
            IN IF exact # <<>> THEN << exact[1] >>
               ELSE IF HasCorrection(BRAND_CORRECTIONS, Lower(brand))
               THEN << Corrected(BRAND_CORRECTIONS, Lower(brand)) >>
               ELSE <<>>
    IN Concat([i \in 1..Len(brands) |-> one(brands[i])])

\* _validate_categories: the valid categories and the features to add
ValidateCategories(categories) ==
    LET valid(c) == Lower(c) \in BAG_CATEGORIES \/ c \in BAG_CATEGORIES
        known(c) == HasCorrection(CATEGORY_CORRECTIONS, Lower(c))
        one(c) == IF valid(c) THEN << c >>
                  ELSE IF known(c) THEN << Corrected(CATEGORY_CORRECTIONS, Lower(c)) >>
                  ELSE <<>>
    IN [valid_categories |-> Concat([i \in 1..Len(categories) |-> one(categories[i])]),
        features_to_add |->
            SelectSeq(categories, LAMBDA c : ~valid(c) /\ ~known(c))]

\* _validate_and_merge.  raised: a non-string brand or category makes
\* .lower() raise, before the list it belongs to is assigned.
ValidateAndMerge(w, s) ==
    LET brands == w.prefs[s].brands
        badB == InList(NonStr, brands)
        w1 == IF brands # <<>> /\ ~badB
              THEN SetList(w, s, "brands", ValidateBrands(brands)) ELSE w
        categories == w1.prefs[s].categories
        badC == InList(NonStr, categories)
        vc == ValidateCategories(categories)
        w2 == SetList(w1, s, "categories", vc.valid_categories)
    IN IF badB THEN [w |-> w, raised |-> TRUE]
       ELSE IF categories = <<>> THEN [w |-> w1, raised |-> FALSE]
       ELSE IF badC THEN [w |-> w1, raised |-> TRUE]
       ELSE [w |-> MutateList(w2, s, "features",
                              w2.prefs[s].features \o vc.features_to_add),
             raised |-> FALSE]

\* _extract_with_ner over the inputs explored, computed once
NER ==
    [text \in INPUTS \cup PRICE_INPUTS \cup VALIDATION_INPUTS \cup WORKFLOW_INPUTS |->
       ExtractWithNER(text)]

\* update_preferences(user_input), the fallback answering llm on a cache
\* miss.  An exception of any step ends the update where it stands (the
\* except clause only logs).  d is the dict the fallback step received.
update_preferences(w, s, text, llm) ==
    CHOOSE out \in
        { LET m == MergeLLMPreferences(r.w, s, text, r.k)
              v == ValidateAndMerge(BackupExclusionDetection(m.w, s, text), s)
              d == IF r.k = 0 THEN NoAnswer ELSE r.w.cache[r.k].d
          IN IF m.raised THEN [w |-> m.w, raised |-> TRUE, k |-> r.k, d |-> d]
             ELSE [w |-> v.w, raised |-> v.raised, k |-> r.k, d |-> d] :
          r \in {ExtractPreferencesCached(ApplyNERPreferences(w, s, NER[text]),
                                          s, text, llm)} } : TRUE

RECURSIVE ExcludeEach(_, _, _, _, _)
\* one block of _process_llm_exclusions: each excluded value is appended to
\* the excluded list unless held, and removed from the positive list if held
ExcludeEach(w, s, pos, exc, excluded) ==
    IF excluded = <<>> THEN w
    ELSE LET v == Head(excluded)
             w1 == IF InList(v, w.prefs[s][exc]) THEN w
                   ELSE MutateList(w, s, exc, Append(w.prefs[s][exc], v))
             w2 == IF InList(v, w1.prefs[s][pos])
                   THEN MutateList(w1, s, pos, RemoveFirst(w1.prefs[s][pos], v))
                   ELSE w1
         IN ExcludeEach(w2, s, pos, exc, Tail(excluded))

\* _process_llm_exclusions(llm_preferences, ...)
ProcessLLMExclusions(w, s, d) ==
    LET w1 == ExcludeEach(w, s, "colors", "excluded_colors", d.excluded_colors)
        w2 == ExcludeEach(w1, s, "brands", "excluded_brands", d.excluded_brands)
    IN ExcludeEach(w2, s, "categories", "excluded_categories", d.excluded_categories)

\* update_preferences_with_metadata(user_input): NER, the fallback, then
\* _apply_llm_preferences (exclusions, then the merge with "" as the input);
\* no backup detection and no validation follow
update_preferences_with_metadata(w, s, text, llm) ==
    CHOOSE out \in
        { LET d == IF r.k = 0 THEN NoAnswer ELSE r.w.cache[r.k].d
              m == MergeLLMPreferences(ProcessLLMExclusions(r.w, s, d), s, <<>>, r.k)
          IN [w |-> m.w, raised |-> m.raised, k |-> r.k, d |-> d] :
          r \in {ExtractPreferencesCached(ApplyNERPreferences(w, s, NER[text]),
                                          s, text, llm)} } : TRUE

\* clear_preferences: UserPreferences.clear() empties every list in place
RECURSIVE ClearLists(_, _, _)
ClearLists(w, s, fields) ==
    IF fields = <<>> THEN w
    ELSE ClearLists(MutateList(w, s, Head(fields), <<>>), s, Tail(fields))

clear_preferences(w, s) ==
    LET w1 == ClearLists(w, s, LIST_FIELDS)
    IN [w1 EXCEPT !.prefs[s].price_min = None, !.prefs[s].price_max = None]

-----------------------------------------------------------------------------
(* ConversationWorkflow (workflows/conversation_flow.py): the route of one *)
(* message through the two nodes of the graph, as far as the preferences   *)
(* are concerned.                                                          *)

\* term in user_input.lower(), for a term without a space; "bags" is the
\* one word of the messages explored that holds a term as a proper part
HasTerm(text, term) ==
    \E i \in 1..Len(text) :
        Lower(text[i]) = term \/ <<Lower(text[i]), term>> \in { <<"bags", "bag">> }

\* _is_show_more_request
IsShowMoreRequest(text) ==
    LET show_more_patterns ==
            { <<"show", "more">>, <<"more", "results">>, <<"more", "options">>,
              <<"see", "more">>, <<"show", "me", "more">>, <<"load", "more">>,
              <<"more", "products">>, <<"next">>, <<"continue">>,
              <<"more", "items">>, <<"additional", "results">> }
    IN \E p \in show_more_patterns :
           IF Len(p) = 1 THEN HasTerm(text, p[1]) ELSE Contains(text, p)

\* is_relevant_to_shopping
is_relevant_to_shopping(text) ==
    LET shopping_terms ==
            { "bag", "handbag", "purse", "tote", "backpack", "clutch", "wallet",
              "shopping", "buy", "purchase", "price", "cost", "delivery",
              "shipping", "brand", "leather", "canvas", "product", "item",
              "store" }
        common_phrases == { "hi", "hello", "thank", "bye", "help", "clear", "reset" }
    IN \E term \in shopping_terms \cup common_phrases : HasTerm(text, term)

\* should_search_products(user_input, has_preferences)
should_search_products(text, has_preferences) ==
    LET search_keywords ==
            { <<"show">>, <<"find">>, <<"search">>, <<"look">>, <<"recommend">>,
              <<"suggest">>, <<"want">>, <<"need">>, <<"display">>, <<"see">>,
              <<"browse">>, <<"shopping">>, <<"buy">>, <<"purchase">>,
              <<"get", "me">>, <<"what", "about">>, <<"how", "about">>,
              <<"any">>, <<"do", "you", "have">> }
        product_terms ==
            { "bag", "handbag", "purse", "tote", "backpack", "clutch", "wallet",
              "crossbody", "shoulder", "messenger", "satchel", "briefcase" }
        refinement_terms ==
            { "leather", "canvas", "black", "brown", "cheap", "expensive",
              "small", "large" }
    IN \/ \E kw \in search_keywords :
             IF Len(kw) = 1 THEN HasTerm(text, kw[1]) ELSE Contains(text, kw)
       \/ has_preferences /\ \E term \in refinement_terms : HasTerm(text, term)
       \/ has_preferences /\ Len(text) <= 3
       \/ \E term \in product_terms : HasTerm(text, term)

\* UserPreferences.has_active_preferences
has_active_preferences(p) ==
    \/ p.price_min # None
    \/ p.price_max # None
    \/ \E f \in Range(LIST_FIELDS) : p[f] # <<>>

\* _handle_preference_update, its comparison: previous_prefs is a shallow
\* copy of to_dict(), so it holds the list objects of the preferences
\* themselves.  A list the update changes in place is changed in
\* previous_prefs too and compares equal; only a field the update rebinds to
\* another list, or a price, can differ.  The lists the merge can share with
\* the cache are followed by keeping previous_prefs as one more holder; the
\* features are rebound by the merge when the answer has some, an excluded
\* list by the NER step or the merge when it was empty.
PreferenceUpdated(w, s, text, llm) ==
    LET K == Len(w.cache) + 1
        held(f) == IF w.alias[s][f] = 0 THEN K ELSE w.alias[s][f]
        shadow == [w EXCEPT
                     !.cache = Append(@, [text |-> <<"previous_prefs">>,
                                          snap |-> EmptyPrefs,
                                          d |-> w.prefs[s]]),
                     !.alias[s] = [f \in ALIAS_FIELDS |-> held(f)]]
    IN \E u \in {update_preferences(shadow, s, text, llm)},
          r \in {ExtractPreferencesCached(ApplyNERPreferences(w, s, NER[text]),
                                          s, text, llm)} :
         \E m \in {MergeLLMPreferences(r.w, s, text, r.k)} :
           LET now == u.w.prefs[s]
               rebound(f) ==
                   IF f = "features"
                   THEN r.k # 0 /\ ~m.raised /\ r.w.cache[r.k].d.features # <<>>
                   ELSE w.prefs[s][f] = <<>> /\ m.w.prefs[s][f] # <<>>
               previous(f) ==
                   IF f \in ALIAS_FIELDS THEN u.w.cache[held(f)].d[f]
                   ELSE IF f \in {"price_min", "price_max"} THEN w.prefs[s][f]
                   ELSE IF rebound(f) THEN w.prefs[s][f]
                   ELSE now[f]
           IN \E f \in DOMAIN EmptyPrefs : previous(f) # now[f]

\* process_message(user_input): a paging request is answered at once;
\* otherwise _process_input_and_route updates the preferences of a relevant
\* message and decides should_retrieve, then _execute_search_or_respond
\* updates them again (_handle_preference_update) and, unless that update
\* changed them and its product search succeeded, searches products or
\* answers in general, which is where a reset phrase clears the preferences.
\* llm1, llm2: the fallback's answers to the two updates on a cache miss;
\* fails: the product search of _handle_preference_update raises.
process_message(w, s, text, llm1, llm2, fails) ==
    IF IsShowMoreRequest(text) THEN [w |-> w, route |-> "show_more"]
    ELSE
    LET relevant == is_relevant_to_shopping(text)
        reset_phrases ==
            { <<"clear", "preferences">>, <<"reset", "preferences">>,
              <<"start", "over">> }
        \* _execute_search_or_respond, w1 the world _process_input_and_route left
        respond(w1) ==
            LET should_retrieve ==
                    relevant /\ should_search_products(
                                    text, has_active_preferences(w1.prefs[s]))
            IN CHOOSE out \in
                 { IF PreferenceUpdated(w1, s, text, llm2) /\ ~fails
                   THEN [w |-> w2, route |-> "updated"]
                   ELSE IF should_retrieve THEN [w |-> w2, route |-> "search"]
                   ELSE IF \E p \in reset_phrases : Contains(text, p)
                   THEN [w |-> clear_preferences(w2, s), route |-> "reset"]
                   ELSE [w |-> w2, route |-> "chat"] :
                   w2 \in {update_preferences(w1, s, text, llm2).w} } : TRUE
    IN CHOOSE out \in
         { respond(w1) :
           w1 \in {IF relevant THEN update_preferences(w, s, text, llm1).w ELSE w} } : TRUE

-----------------------------------------------------------------------------
(* matches_preferences (utils/validators.py).  Its tests are substring     *)
(* tests on characters, so here a string is the sequence of its            *)
(* characters.                                                             *)

\* the characters of the words that documents and preferences are made of
Spell(word) ==
    CASE word = "tote" -> <<"t", "o", "t", "e">>
      [] word = "Tote" -> <<"T", "o", "t", "e">>
      [] word = "bag" -> <<"b", "a", "g">>
      [] word = "Bag" -> <<"B", "a", "g">>
      [] word = "bags" -> <<"b", "a", "g", "s">>
      [] word = "leather" -> <<"l", "e", "a", "t", "h", "e", "r">>
      [] word = "black" -> <<"b", "l", "a", "c", "k">>
      [] word = "Black" -> <<"B", "l", "a", "c", "k">>
      [] word = "brown" -> <<"b", "r", "o", "w", "n">>
      [] word = "Brown" -> <<"B", "r", "o", "w", "n">>
      [] word = "clutch" -> <<"c", "l", "u", "t", "c", "h">>
      [] word = "clutches" -> <<"c", "l", "u", "t", "c", "h", "e", "s">>
      [] word = "crossbody" -> <<"c", "r", "o", "s", "s", "b", "o", "d", "y">>
      [] word = "cross-body" -> <<"c", "r", "o", "s", "s", "-", "b", "o", "d", "y">>
      [] word = "Cross-body" -> <<"C", "r", "o", "s", "s", "-", "b", "o", "d", "y">>
      [] word = "Cross-Body" -> <<"C", "r", "o", "s", "s", "-", "B", "o", "d", "y">>
      [] word = "guess" -> <<"g", "u", "e", "s", "s">>
      [] word = "Guess" -> <<"G", "u", "e", "s", "s">>
      [] word = "Gucci" -> <<"G", "u", "c", "c", "i">>

RECURSIVE Join(_)
\* ' '.join(words), as characters
Join(words) ==
    IF words = <<>> THEN <<>>
    ELSE IF Len(words) = 1 THEN Spell(words[1])
    ELSE Spell(words[1]) \o <<" ">> \o Join(Tail(words))

\* the characters of a preference value
Str(v) == Join(Words(v))

\* str.lower() on characters
LowerStr(str) ==
    LET lower(c) == CASE c = "B" -> "b" [] c = "C" -> "c" [] c = "G" -> "g"
                      [] c = "T" -> "t" [] OTHER -> c
    IN [i \in 1..Len(str) |-> lower(str[i])]

\* part in str
IsIn(part, str) ==
    \E i \in 0..(Len(str) - Len(part)) : SubSeq(str, i + 1, i + Len(part)) = part

\* str.endswith(suffix)
EndsWith(str, suffix) ==
    Len(suffix) <= Len(str)
    /\ SubSeq(str, Len(str) - Len(suffix) + 1, Len(str)) = suffix

RECURSIVE Replace(_, _, _)
\* str.replace(old, new), old non-empty
Replace(str, old, new) ==
    IF Len(str) < Len(old) THEN str
    ELSE IF SubSeq(str, 1, Len(old)) = old
         THEN new \o Replace(SubSeq(str, Len(old) + 1, Len(str)), old, new)
         ELSE <<Head(str)>> \o Replace(Tail(str), old, new)

RECURSIVE Split(_, _)
\* str.split(): the runs of characters other than the space; word is the run
\* being read
Split(str, word) ==
    IF str = <<>> THEN (IF word = <<>> THEN <<>> ELSE <<word>>)
    ELSE IF Head(str) = " "
         THEN (IF word = <<>> THEN <<>> ELSE <<word>>) \o Split(Tail(str), <<>>)
         ELSE Split(Tail(str), Append(word, Head(str)))

\* f"{doc_name} {content_lower}"
SearchableText(doc) ==
    LowerStr(Join(doc.name)) \o <<" ">> \o LowerStr(Join(doc.content))

\* one turn of the loop over preferences.categories: the category matches
\* the text exactly or through one of its variants
CategoryMatch(category, searchable_text) ==
    LET category_lower == LowerStr(Str(category))
        singular_category == SubSeq(category_lower, 1, Len(category_lower) - 1)
        base_singular ==
            IF EndsWith(category_lower, <<"e", "s">>)
            THEN SubSeq(category_lower, 1, Len(category_lower) - 2)
            ELSE singular_category
        cross_body_variations ==
            { <<"cross-body", "bag">>, <<"cross-body", "bags">>,
              <<"Cross-body", "bag">>, <<"Cross-body", "Bag">>,
              <<"Cross-body", "bags">>, <<"Cross-Body", "bag">>,
              <<"Cross-Body", "Bag">>, <<"Cross-Body", "bags">> }
        category_words == Split(category_lower, <<>>)
    IN \/ IsIn(category_lower, searchable_text)
       \/ /\ EndsWith(category_lower, <<"s">>)
          /\ \/ IsIn(singular_category, searchable_text)
             \/ /\ EndsWith(singular_category, <<" ">> \o Spell("bag"))
                /\ IsIn(Replace(singular_category, <<" ">> \o Spell("bag"), <<>>),
                        searchable_text)
             \/ IsIn(base_singular, searchable_text)
       \/ /\ IsIn(Spell("crossbody"), category_lower)
          /\ \/ IsIn(Replace(category_lower, Spell("crossbody"), Spell("cross-body")),
                     searchable_text)
             \/ IsIn(Replace(category_lower, Spell("cross-body"), Spell("crossbody")),
                     searchable_text)
       \/ /\ category_lower = Str("crossbody bags")
          /\ \E variation \in cross_body_variations : IsIn(Join(variation), searchable_text)
       \/ /\ \/ Len(category_words) = 1
             \/ Len(category_words) = 2 /\ category_words[2] = Spell("bags")
          /\ IsIn(category_words[1], searchable_text)

\* one turn of the loop over preferences.excluded_categories: the excluded
\* category is found in the text
ExcludedCategoryFound(excluded_category, searchable_text) ==
    LET excluded_category_lower == LowerStr(Str(excluded_category))
    IN \/ IsIn(excluded_category_lower, searchable_text)
       \/ /\ EndsWith(excluded_category_lower, <<"s">>)
          /\ IsIn(SubSeq(excluded_category_lower, 1, Len(excluded_category_lower) - 1),
                  searchable_text)
       \/ /\ IsIn(Spell("crossbody"), excluded_category_lower)
          /\ IsIn(Replace(excluded_category_lower, Spell("crossbody"), Spell("cross-body")),
                  searchable_text)

\* the price test: float(meta price) raising (None here) rejects the document
PriceMatch(doc, p) ==
    (p.price_min # None \/ p.price_max # None) =>
        /\ doc.price # None
        /\ p.price_max # None => doc.price <= p.price_max
        /\ p.price_min # None => doc.price >= p.price_min

\* no excluded value is ever found
ExcludedNeverFound(excluded, str) == FALSE

\* one of the excluded values is in the text
ExcludedFound(excluded, str) ==
    \E i \in 1..Len(excluded) : IsIn(LowerStr(Str(excluded[i])), str)

\* matches_preferences(doc, preferences)
matches_preferences(doc, p) ==
    LET doc_brand == LowerStr(Join(doc.brand))
        searchable_text == SearchableText(doc)
    IN /\ PriceMatch(doc, p)
       /\ p.brands # <<>> =>
            \E i \in 1..Len(p.brands) : IsIn(LowerStr(Str(p.brands[i])), doc_brand)
       /\ ~ExcludedFound(p.excluded_brands, doc_brand)
       /\ p.colors # <<>> =>
            \E i \in 1..Len(p.colors) : IsIn(LowerStr(Str(p.colors[i])), searchable_text)
       /\ ~ExcludedFound(p.excluded_colors, searchable_text)
       /\ p.categories # <<>> =>
            \E i \in 1..Len(p.categories) : CategoryMatch(p.categories[i], searchable_text)
       /\ \A i \in 1..Len(p.excluded_categories) :
            ~ExcludedCategoryFound(p.excluded_categories[i], searchable_text)

-----------------------------------------------------------------------------
(* The state machine: sessions of one SessionManager, each with its own    *)
(* EnhancedPreferenceService, all sharing one CachedAzureService.          *)

Idle == [pc |-> "idle", s |-> 0, text |-> <<>>, llm |-> NoAnswer]

Init ==
    /\ created = {}
    /\ prefs = [s \in SessionIds |-> EmptyPrefs]
    /\ alias = [s \in SessionIds |-> NoAlias]
    /\ cache = <<>>
    /\ nops = 0
    /\ last = [op |-> "init", s |-> 0, text |-> <<>>, d |-> NoAnswer, k |-> 0,
               raised |-> FALSE, fallback |-> "none",
               before |-> [s \in SessionIds |-> EmptyPrefs]]
    /\ inflight = [r \in Requests |-> Idle]

\* SessionManager.create_session
CreateSession(s) ==
    /\ s \notin created
    /\ \A t \in SessionIds : t < s => t \in created
    /\ created' = created \cup {s}
    /\ UNCHANGED <<prefs, alias, cache, nops, last, inflight>>

\* one call of update_preferences on the service of session s, running alone
UpdatePreferences(s, text, llm) ==
    /\ s \in created
    /\ \E r \in {update_preferences(World, s, text, llm)} :
          /\ Len(r.w.cache) <= MaxCache
          /\ prefs' = r.w.prefs
          /\ alias' = r.w.alias
          /\ cache' = r.w.cache
          /\ last' = [op |-> "update", s |-> s, text |-> text, d |-> r.d,
                      k |-> r.k, raised |-> r.raised, fallback |-> "dict",
                      before |-> prefs]
    /\ nops' = nops + 1
    /\ UNCHANGED <<created, inflight>>

\* one call of clear_preferences on the service of session s
ClearPreferences(s) ==
    /\ s \in created
    /\ \E w \in {clear_preferences(World, s)} :
          /\ prefs' = w.prefs
          /\ alias' = w.alias
          /\ cache' = w.cache
    /\ last' = [op |-> "clear", s |-> s, text |-> <<>>, d |-> NoAnswer, k |-> 0,
                raised |-> FALSE, fallback |-> "none", before |-> prefs]
    /\ nops' = nops + 1
    /\ UNCHANGED <<created, inflight>>

\* one session, at most MaxOps calls one after the other
Next ==
    \/ CreateSession(1)
    \/ \E text \in INPUTS, llm \in LLM_ANSWERS :
           nops < MaxOps /\ UpdatePreferences(1, text, llm)
    \/ nops < MaxOps /\ ClearPreferences(1)

Spec == Init /\ [][Next]_vars

-----------------------------------------------------------------------------
(* One session stating prices turn after turn.                             *)

NextPrices ==
    \/ CreateSession(1)
    \/ \E text \in PRICE_INPUTS, llm \in PRICE_ANSWERS :
           nops < MaxPriceOps /\ UpdatePreferences(1, text, llm)
    \/ nops < MaxPriceOps /\ ClearPreferences(1)

SpecPrices == Init /\ [][NextPrices]_vars

-----------------------------------------------------------------------------
(* The fallback call and its failures.  A response of the service is       *)
(* [kind, d]: "json" (text holding the JSON object d), "no_json" (text     *)
(* without a {...}), "bad_json" (a {...} json.loads rejects), "raises"     *)
(* (chain.invoke raises) or "unavailable" (Azure not configured: llm and   *)
(* preference_chain are None).                                             *)

FAILURES == {"no_json", "bad_json", "raises", "unavailable"}

\* a variant of ParseResponse that hands on the object of a response
\* json.loads rejects; C12 does not hold of it
ParseResponseLenient(resp) == resp.d

\* the dict extract_preferences_cached computes from a response on a miss:
\* run_with_tracking turns an exception into None and "if result:" into {};
\* no match of \{.*\} gives {}; json.loads raising is caught and gives {}
ParseResponse(resp) == IF resp.kind = "json" THEN resp.d ELSE NoAnswer

\* update_preferences with the service answering resp: step 2 is skipped
\* when preference_chain is None
update_preferences_responding(w, s, text, resp) ==
    IF resp.kind = "unavailable"
    THEN CHOOSE out \in
             { [w |-> v.w, raised |-> v.raised, k |-> 0, d |-> NoAnswer] :
               v \in {ValidateAndMerge(
                          BackupExclusionDetection(
                              ApplyNERPreferences(w, s, NER[text]), s, text), s)} } : TRUE
    ELSE update_preferences(w, s, text, ParseResponse(resp))

\* the turn gets its answer from the service and not from the cache
Answered(w, s, text, resp) ==
    \/ resp.kind = "unavailable"
    \/ CacheGet(w.cache, text, ApplyNERPreferences(w, s, NER[text]).prefs[s]) = 0

FALLBACK_INPUTS ==
    { <<"black", "bags">>, <<"only", "brown">>, <<"no", "brown", "bags">>,
      <<"Guess", "tote">>, <<"above", "100">> }

RESPONSES ==
    { [kind |-> "json", d |-> Delta([colors |-> <<"brown">>, brands |-> <<"Gucci">>])],
      [kind |-> "json", d |-> Delta([categories |-> <<"hobo">>, price_max |-> 150])],
      [kind |-> "no_json", d |-> NoAnswer],
      [kind |-> "bad_json", d |-> Delta([colors |-> <<"brown">>])],
      [kind |-> "raises", d |-> NoAnswer],
      [kind |-> "unavailable", d |-> NoAnswer] }

\* one call of update_preferences, the service answering resp
UpdateResponding(s, text, resp) ==
    /\ s \in created
    /\ \E r \in {update_preferences_responding(World, s, text, resp)} :
          /\ Len(r.w.cache) <= MaxCache
          /\ prefs' = r.w.prefs
          /\ alias' = r.w.alias
          /\ cache' = r.w.cache
          /\ last' = [op |-> "update", s |-> s, text |-> text, d |-> r.d,
                      k |-> r.k, raised |-> r.raised,
                      fallback |-> IF Answered(World, s, text, resp)
                                   THEN resp.kind ELSE "cached",
                      before |-> prefs]
    /\ nops' = nops + 1
    /\ UNCHANGED <<created, inflight>>

NextFallback ==
    \/ CreateSession(1)
    \/ \E text \in FALLBACK_INPUTS, resp \in RESPONSES :
           nops < MaxFallbackOps /\ UpdateResponding(1, text, resp)
    \/ nops < MaxFallbackOps /\ ClearPreferences(1)

SpecFallback == Init /\ [][NextFallback]_vars

-----------------------------------------------------------------------------
(* Calls of NERService.extract_entities.  Which extractors raise, the      *)
(* iteration order of the set of entity types (hashes of enum members      *)
(* differ from process to process) and what spaCy finds are not decided    *)
(* by the text.                                                            *)

SPACY_ENTS ==
    { <<>>,
      << [label |-> "ORG", text |-> "Guess"] >>,
      << [label |-> "MONEY", text |-> "100"], [label |-> "GPE", text |-> "Paris"] >> }

\* the orders in which a set of the registered types can be iterated
ORDERS ==
    {o \in [1..Cardinality(EXTRACTORS) -> EXTRACTORS] :
        \A i, j \in DOMAIN o : i # j => o[i] # o[j]}

\* a call about to be made: its text and what the text does not decide
InitNER ==
    /\ created = {}
    /\ prefs = [s \in SessionIds |-> EmptyPrefs]
    /\ alias = [s \in SessionIds |-> NoAlias]
    /\ cache = <<>>
    /\ nops = 0
    /\ inflight = [r \in Requests |-> Idle]
    /\ \E text \in NER_INPUTS, order \in ORDERS, ents \in SPACY_ENTS :
       \E fails \in {F \in SUBSET EXTRACTORS : Cardinality(F) <= MaxFailing} :
          last = [op |-> "call", text |-> text, order |-> order, fails |-> fails,
                  ents |-> ents]

ExtractEntities ==
    /\ last.op = "call"
    /\ last' = [op |-> "extract_entities", text |-> last.text, fails |-> last.fails,
                result |-> extract_entities(last.text, last.order, last.fails,
                                            last.ents)]
    /\ UNCHANGED <<created, prefs, alias, cache, nops, inflight>>

NextNER == ExtractEntities

SpecNER == InitNER /\ [][NextNER]_vars

-----------------------------------------------------------------------------
(* Calls of _deduplicate_extractions on lists of candidate extractions.    *)

\* the candidates of one extractor over a text of MaxPos words: an exact
\* match (0.95), a corrected one (0.85), a fuzzy one (0.70), of any span
CANDIDATES ==
    {e \in [value : {"Guess"}, confidence : {95, 85, 70},
            start_pos : 1..MaxPos, end_pos : 2..(MaxPos + 1)] :
        e.start_pos < e.end_pos}

CandidateLists == UNION { [1..n -> CANDIDATES] : n \in 0..MaxCandidates }

InitDedup ==
    /\ created = {}
    /\ prefs = [s \in SessionIds |-> EmptyPrefs]
    /\ alias = [s \in SessionIds |-> NoAlias]
    /\ cache = <<>>
    /\ nops = 0
    /\ inflight = [r \in Requests |-> Idle]
    /\ \E es \in CandidateLists : last = [op |-> "call", extractions |-> es]

Deduplicate ==
    /\ last.op = "call"
    /\ last' = [op |-> "_deduplicate_extractions", extractions |-> last.extractions,
                filtered |-> DeduplicateExtractions(last.extractions)]
    /\ UNCHANGED <<created, prefs, alias, cache, nops, inflight>>

NextDedup == Deduplicate

SpecDedup == InitDedup /\ [][NextDedup]_vars

-----------------------------------------------------------------------------
(* One session whose turns name brands and categories, through either      *)
(* update method.                                                          *)

\* one call of update_preferences_with_metadata on the service of session s
UpdatePreferencesWithMetadata(s, text, llm) ==
    /\ s \in created
    /\ \E r \in {update_preferences_with_metadata(World, s, text, llm)} :
          /\ Len(r.w.cache) <= MaxCache
          /\ prefs' = r.w.prefs
          /\ alias' = r.w.alias
          /\ cache' = r.w.cache
          /\ last' = [op |-> "update_with_metadata", s |-> s, text |-> text,
                      d |-> r.d, k |-> r.k, raised |-> r.raised,
                      fallback |-> "dict", before |-> prefs]
    /\ nops' = nops + 1
    /\ UNCHANGED <<created, inflight>>

NextValidation ==
    \/ CreateSession(1)
    \/ \E text \in VALIDATION_INPUTS, llm \in VALIDATION_ANSWERS :
           nops < MaxValidationOps /\ UpdatePreferences(1, text, llm)
    \/ \E text \in VALIDATION_INPUTS, llm \in VALIDATION_ANSWERS :
           nops < MaxValidationOps /\ UpdatePreferencesWithMetadata(1, text, llm)
    \/ nops < MaxValidationOps /\ ClearPreferences(1)

SpecValidation == Init /\ [][NextValidation]_vars

-----------------------------------------------------------------------------
(* One session whose messages go through the conversation workflow.        *)

\* one call of process_message on the workflow of session s
ProcessMessage(s, text, llm1, llm2, fails) ==
    /\ s \in created
    /\ \E r \in {process_message(World, s, text, llm1, llm2, fails)} :
          /\ Len(r.w.cache) <= MaxCache
          /\ prefs' = r.w.prefs
          /\ alias' = r.w.alias
          /\ cache' = r.w.cache
          /\ last' = [op |-> "process_message", s |-> s, text |-> text,
                      route |-> r.route, d |-> NoAnswer, k |-> 0,
                      raised |-> FALSE, fallback |-> "none", before |-> prefs,
                      alias |-> alias, cache |-> cache, llm |-> <<llm1, llm2>>]
    /\ nops' = nops + 1
    /\ UNCHANGED <<created, inflight>>

NextWorkflow ==
    \/ CreateSession(1)
    \/ \E text \in WORKFLOW_INPUTS, llm1, llm2 \in WORKFLOW_ANSWERS, fails \in BOOLEAN :
           nops < MaxWorkflowOps /\ ProcessMessage(1, text, llm1, llm2, fails)

SpecWorkflow == Init /\ [][NextWorkflow]_vars

-----------------------------------------------------------------------------
(* Calls of matches_preferences on documents of the catalogue.             *)

\* documents: name, page content and brand as words, price as a number or
\* None for a price that float() does not parse
DOCS ==
    { [name |-> <<"Brown", "leather", "Tote">>, content |-> <<"black", "leather", "tote">>,
       brand |-> <<"Guess">>, price |-> 50],
      [name |-> <<"Tote", "Bag">>, content |-> <<"brown", "tote", "bag">>,
       brand |-> <<"Gucci">>, price |-> 50],
      [name |-> <<"tote", "bags">>, content |-> <<"black", "tote", "bags">>,
       brand |-> <<"Guess">>, price |-> None],
      [name |-> <<"Cross-body", "Bag">>, content |-> <<"black", "cross-body", "bag">>,
       brand |-> <<"Guess">>, price |-> 50],
      [name |-> <<"crossbody", "bag">>, content |-> <<"brown", "crossbody", "bag">>,
       brand |-> <<"Gucci">>, price |-> 150],
      [name |-> <<"leather", "clutch">>, content |-> <<"brown", "clutch">>,
       brand |-> <<"Gucci">>, price |-> 50] }

MATCH_CATEGORIES == {"tote bags", "clutches", "crossbody bags"}

\* the preferences a search is filtered by
MATCH_PREFS ==
    LET some(S) == {<<>>} \cup {<<x>> : x \in S}
    IN { [EmptyPrefs EXCEPT !.price_max = q[1], !.brands = q[2], !.excluded_brands = q[3],
                            !.colors = q[4], !.excluded_colors = q[5],
                            !.categories = q[6], !.excluded_categories = q[7]] :
         q \in {None, 100} \X some({"Guess"}) \X some({"guess"}) \X some({"black"})
               \X some({"Brown"}) \X some(MATCH_CATEGORIES) \X some(MATCH_CATEGORIES) }

InitMatch ==
    /\ created = {}
    /\ prefs = [s \in SessionIds |-> EmptyPrefs]
    /\ alias = [s \in SessionIds |-> NoAlias]
    /\ cache = <<>>
    /\ nops = 0
    /\ inflight = [r \in Requests |-> Idle]
    /\ \E doc \in DOCS, p \in MATCH_PREFS : last = [op |-> "call", doc |-> doc, p |-> p]

MatchesPreferences ==
    /\ last.op = "call"
    /\ last' = [op |-> "matches_preferences", doc |-> last.doc, p |-> last.p,
                result |-> matches_preferences(last.doc, last.p)]
    /\ UNCHANGED <<created, prefs, alias, cache, nops, inflight>>

NextMatch == MatchesPreferences

SpecMatch == InitMatch /\ [][NextMatch]_vars

-----------------------------------------------------------------------------
(* The entity extractors and _extract_with_ner in processes whose          *)
(* reference sets iterate in different orders (the hash of a string, and   *)
(* with it the order of a set of strings, changes from one Python process  *)
(* to the next).                                                           *)

\* the orders in which a set can iterate
Orders(table) ==
    { p \in [1..Len(table) -> Range(table)] :
        \A i, j \in 1..Len(table) : i # j => p[i] # p[j] }

TABLE_ORDERS ==
    [colors : Orders(VALID_COLORS_ITER), brands : Orders(VALID_BRANDS_ITER),
     categories : Orders(BAG_CATEGORIES_ITER)]

\* inputs naming one or several values of a table, a brand inside a longer
\* brand, and several colors in one exclusion phrase
ORDER_INPUTS ==
    { <<"a", "Guess", "tote">>, <<"Cellini", "Sport", "bag">>,
      <<"black", "and", "brown", "bags">>, <<"tote", "bags", "and", "backpacks">>,
      <<"excluding", "black", "and", "brown">> }

\* the values of a list of extractions, in order
Values(es) == [i \in 1..Len(es) |-> es[i].value]

InitOrder ==
    /\ created = {}
    /\ prefs = [s \in SessionIds |-> EmptyPrefs]
    /\ alias = [s \in SessionIds |-> NoAlias]
    /\ cache = <<>>
    /\ nops = 0
    /\ inflight = [r \in Requests |-> Idle]
    /\ \E text \in ORDER_INPUTS, iter \in TABLE_ORDERS :
           last = [op |-> "call", text |-> text, iter |-> iter]

\* the three dictionary extractors and _extract_with_ner on the text
ExtractInProcess ==
    /\ last.op = "call"
    /\ last' = [op |-> "_extract_with_ner", text |-> last.text, iter |-> last.iter,
                brand |-> Values(BrandExtractor(last.text, last.iter.brands)),
                color |-> Values(ColorExtractor(last.text, last.iter.colors)),
                category |-> Values(CategoryExtractor(last.text, last.iter.categories)),
                ner |-> extract_with_ner(last.text, last.iter)]
    /\ UNCHANGED <<created, prefs, alias, cache, nops, inflight>>

NextOrder == ExtractInProcess

SpecOrder == InitOrder /\ [][NextOrder]_vars

-----------------------------------------------------------------------------
(* _extract_with_ner with a ConversationState: the confidences recorded    *)
(* per preference key (models/enhanced_state.py).                          *)

\* f"{entity_type}_{value.lower().replace(' ', '_')}", as a pair
PreferenceKey(entity_type, value) == <<entity_type, Lower(value)>>

\* track_ner_preference_extraction: for value, confidence in zip(values,
\* confidences), update_preference_source stores the confidence under the
\* key of the value; conf is state.preference_confidence
track_ner_preference_extraction(conf, entity_type, values, confidences) ==
    LET n == Min2(Len(values), Len(confidences))
        at(k) == {i \in 1..n : PreferenceKey(entity_type, values[i]) = k}
    IN [k \in DOMAIN conf \cup {PreferenceKey(entity_type, values[i]) : i \in 1..n} |->
          IF at(k) = {} THEN conf[k]
          ELSE confidences[CHOOSE i \in at(k) : \A j \in at(k) : j <= i]]

\* the brand, color and category blocks of _extract_with_ner: the unique
\* values of a type are tracked with the confidences of its entities
TrackExtractions(conf, entities) ==
    LET track(c, entity_type) ==
            LET values == GetUniqueValues(entities[entity_type])
                confidence_scores ==
                    [i \in 1..Len(entities[entity_type]) |-> entities[entity_type][i].confidence]
            IN IF values = <<>> THEN c
               ELSE track_ner_preference_extraction(c, entity_type, values, confidence_scores)
    IN track(track(track(conf, "brand"), "color"), "category")

\* inputs naming a value once, twice, and beside a value of lower confidence
TRACK_INPUTS ==
    { <<"Guess", "tote">>, <<"ck", "and", "Guess">>,
      <<"Guess", "and", "Guess", "and", "ck">>,
      <<"black", "and", "brown", "bags">>,
      <<"tote", "bags", "and", "tote", "bags", "and", "backpack">> }

InitTrack ==
    /\ created = {}
    /\ prefs = [s \in SessionIds |-> EmptyPrefs]
    /\ alias = [s \in SessionIds |-> NoAlias]
    /\ cache = <<>>
    /\ nops = 0
    /\ inflight = [r \in Requests |-> Idle]
    /\ \E text \in TRACK_INPUTS, iter \in TABLE_ORDERS :
           last = [op |-> "call", text |-> text, iter |-> iter]

\* _extract_with_ner(text, conversation_state) on a new ConversationState
ExtractAndTrack ==
    /\ last.op = "call"
    /\ \E entities \in
           { [brand |-> BrandExtractor(last.text, last.iter.brands),
              color |-> ColorExtractor(last.text, last.iter.colors),
              category |-> CategoryExtractor(last.text, last.iter.categories)] } :
         last' = [op |-> "track", text |-> last.text, iter |-> last.iter,
                  entities |-> entities,
                  preference_confidence |-> TrackExtractions(<<>>, entities)]
    /\ UNCHANGED <<created, prefs, alias, cache, nops, inflight>>

NextTrack == ExtractAndTrack

SpecTrack == InitTrack /\ [][NextTrack]_vars

-----------------------------------------------------------------------------
(* The search pagination state of SessionData (services/session_manager.py) *)
(* and its callers in the conversation workflow.  A SessionData is          *)
(* [last_search_results, displayed_count, has_more_results].                *)

\* SessionData.__init__, and clear_search_state
NewSearchState ==
    [last_search_results |-> <<>>, displayed_count |-> 0, has_more_results |-> FALSE]

\* batch_size of _handle_product_search and the default of get_next_results
BatchSize == 6

\* update_search_state(query, preferences, all_results, displayed_count)
update_search_state(sd, all_results, displayed_count) ==
    [last_search_results |-> all_results, displayed_count |-> displayed_count,
     has_more_results |-> Len(all_results) > displayed_count]

\* can_show_more()
can_show_more(sd) ==
    /\ sd.has_more_results
    /\ sd.last_search_results # <<>>
    /\ sd.displayed_count < Len(sd.last_search_results)

\* the paging never advances
NoAdvance(start_idx, batch_size, n) == start_idx

\* end_idx of get_next_results
EndIdx(start_idx, batch_size, n) == Min2(start_idx + batch_size, n)

\* get_next_results(batch_size): the new state and the batch returned
get_next_results(sd, batch_size) ==
    IF ~can_show_more(sd) THEN [sd |-> sd, next_batch |-> <<>>]
    ELSE LET start_idx == sd.displayed_count
             end_idx == EndIdx(start_idx, batch_size, Len(sd.last_search_results))
         IN [sd |-> [sd EXCEPT !.displayed_count = end_idx,
                               !.has_more_results = end_idx < Len(sd.last_search_results)],
             next_batch |-> SubSeq(sd.last_search_results, start_idx + 1, end_idx)]

\* the SessionData held in the record of the last call
SearchState ==
    [last_search_results |-> last.last_search_results,
     displayed_count |-> last.displayed_count,
     has_more_results |-> last.has_more_results]

InitPaging ==
    /\ created = {}
    /\ prefs = [s \in SessionIds |-> EmptyPrefs]
    /\ alias = [s \in SessionIds |-> NoAlias]
    /\ cache = <<>>
    /\ nops = 0
    /\ inflight = [r \in Requests |-> Idle]
    /\ last = [op |-> "init", last_search_results |-> <<>>, displayed_count |-> 0,
               has_more_results |-> FALSE, next_batch |-> <<>>, first |-> 0,
               shown |-> <<>>]

\* _handle_product_search finding n documents (documents 1..n, sorted): no
\* document clears the search state, otherwise the first batch is shown and
\* the state updated.  first and shown record the displayed count the
\* update stored and the batches returned since.
ProductSearch(n) ==
    /\ nops < MaxSearches
    /\ \E sd \in { IF n = 0 THEN NewSearchState
                   ELSE update_search_state(SearchState, [i \in 1..n |-> i], BatchSize) } :
         last' = [op |-> IF n = 0 THEN "clear_search_state" ELSE "update_search_state",
                  last_search_results |-> sd.last_search_results,
                  displayed_count |-> sd.displayed_count,
                  has_more_results |-> sd.has_more_results,
                  next_batch |-> <<>>, first |-> sd.displayed_count, shown |-> <<>>]
    /\ nops' = nops + 1
    /\ UNCHANGED <<created, prefs, alias, cache, inflight>>

\* _handle_show_more_request: get_next_results() unless nothing more can be
\* shown, when it answers without calling it (which changes nothing either)
ShowMore ==
    /\ last.op # "init"
    /\ \E r \in {get_next_results(SearchState, BatchSize)} :
         last' = [last EXCEPT !.op = "get_next_results",
                              !.displayed_count = r.sd.displayed_count,
                              !.has_more_results = r.sd.has_more_results,
                              !.next_batch = r.next_batch,
                              !.shown = @ \o r.next_batch]
    /\ UNCHANGED <<created, prefs, alias, cache, nops, inflight>>

\* clear_search_state, called when the preferences change or are reset
ClearSearchState ==
    /\ last.op \notin {"init", "clear_search_state"}
    /\ last' = [op |-> "clear_search_state", last_search_results |-> <<>>,
                displayed_count |-> 0, has_more_results |-> FALSE,
                next_batch |-> <<>>, first |-> 0, shown |-> <<>>]
    /\ UNCHANGED <<created, prefs, alias, cache, nops, inflight>>

NextPaging ==
    \/ \E n \in 0..MaxResults : ProductSearch(n)
    \/ ShowMore
    \/ ClearSearchState

SpecPaging == InitPaging /\ [][NextPaging]_vars

\* show-more requests keep coming while a batch is left: the paging of a
\* session whose user asks for every batch
PagingFairness == WF_vars(ShowMore)

SpecPagingLive == InitPaging /\ [][NextPaging]_vars /\ PagingFairness

-----------------------------------------------------------------------------
(* Several sessions of one SessionManager, their calls one after the other. *)

SHARED_INPUTS == { <<"black", "bags">>, <<"only", "brown">>, <<"excluding", "black">> }

SHARED_ANSWERS ==
    { NoAnswer,
      Delta([colors |-> <<"brown">>, materials |-> <<"leather">>,
             features |-> <<"zipper", "ok">>]),
      Delta([colors |-> <<"black", "brown">>, excluded_colors |-> <<"black">>]) }

NextSessions ==
    \/ \E s \in SessionIds : CreateSession(s)
    \/ \E s \in SessionIds, text \in SHARED_INPUTS, llm \in SHARED_ANSWERS :
           nops < MaxSessionOps /\ UpdatePreferences(s, text, llm)
    \/ \E s \in SessionIds : nops < MaxSessionOps /\ ClearPreferences(s)

SpecSessions == Init /\ [][NextSessions]_vars

-----------------------------------------------------------------------------
(* Requests of one session in the thread pool.  chat_interface_async hands  *)
(* workflow.process_message to loop.run_in_executor and nothing in the     *)
(* handler, the SessionManager or the service holds a lock while it runs:  *)
(* the steps of update_preferences of two requests may alternate.          *)

CONC_INPUTS == { <<"black", "bags">>, <<"only", "brown">>, <<"excluding", "black">> }

CONC_ANSWERS ==
    { NoAnswer,
      Delta([colors |-> <<"black", "brown">>, excluded_colors |-> <<"black">>]) }

\* chat_interface_async: get the session and submit process_message to the
\* executor; the call starts whatever else is running for the session
Submit(r, s, text, llm) ==
    /\ s \in created
    /\ inflight[r].pc = "idle"
    /\ inflight' = [inflight EXCEPT ![r] = [pc |-> "ner", s |-> s, text |-> text,
                                            llm |-> llm]]
    /\ UNCHANGED <<created, prefs, alias, cache, nops, last>>

\* update_preferences, step 1: _extract_with_ner and _apply_ner_preferences
StepNER(r) ==
    /\ inflight[r].pc = "ner"
    /\ \E w \in {ApplyNERPreferences(World, inflight[r].s, NER[inflight[r].text])} :
          /\ prefs' = w.prefs
          /\ alias' = w.alias
          /\ cache' = w.cache
    /\ inflight' = [inflight EXCEPT ![r].pc = "llm"]
    /\ UNCHANGED <<created, nops, last>>

\* update_preferences, step 2: _extract_with_llm and _merge_llm_preferences;
\* an exception ends the call
StepLLM(r) ==
    /\ inflight[r].pc = "llm"
    /\ \E x \in {ExtractPreferencesCached(World, inflight[r].s, inflight[r].text,
                                          inflight[r].llm)} :
       \E m \in {MergeLLMPreferences(x.w, inflight[r].s, inflight[r].text, x.k)} :
          /\ prefs' = m.w.prefs
          /\ alias' = m.w.alias
          /\ cache' = m.w.cache
          /\ inflight' = [inflight EXCEPT ![r].pc = IF m.raised THEN "done" ELSE "backup"]
    /\ UNCHANGED <<created, nops, last>>

\* update_preferences, step 3: _backup_exclusion_detection
StepBackup(r) ==
    /\ inflight[r].pc = "backup"
    /\ \E w \in {BackupExclusionDetection(World, inflight[r].s, inflight[r].text)} :
          /\ prefs' = w.prefs
          /\ alias' = w.alias
          /\ cache' = w.cache
    /\ inflight' = [inflight EXCEPT ![r].pc = "validate"]
    /\ UNCHANGED <<created, nops, last>>

\* update_preferences, step 4: _validate_and_merge, and the return
StepValidate(r) ==
    /\ inflight[r].pc = "validate"
    /\ \E v \in {ValidateAndMerge(World, inflight[r].s)} :
          /\ prefs' = v.w.prefs
          /\ alias' = v.w.alias
          /\ cache' = v.w.cache
    /\ inflight' = [inflight EXCEPT ![r].pc = "done"]
    /\ UNCHANGED <<created, nops, last>>

NextConc ==
    \/ CreateSession(1)
    \/ \E r \in Requests, text \in CONC_INPUTS, llm \in CONC_ANSWERS :
           Submit(r, 1, text, llm)
    \/ \E r \in Requests : StepNER(r)
    \/ \E r \in Requests : StepLLM(r)
    \/ \E r \in Requests : StepBackup(r)
    \/ \E r \in Requests : StepValidate(r)

SpecConc == Init /\ [][NextConc]_vars

-----------------------------------------------------------------------------
(* A turn whose fallback call waits for the service.  run_with_tracking    *)
(* calls chain.invoke(inputs) and blocks until it returns or raises; no    *)
(* timeout is given to AzureChatOpenAI or to the call.  The thread of a    *)
(* request takes its own steps (weak fairness); whether and when the       *)
(* service responds is up to the service.                                  *)

LIVE_INPUTS == { <<"black", "bags">>, <<"only", "brown">>, <<"excluding", "black">> }

LIVE_ANSWERS ==
    { NoAnswer,
      Delta([colors |-> <<"black">>]),
      Delta([colors |-> <<"black", "brown">>, excluded_colors |-> <<"black">>]) }

\* the user sends a message once the turn before has returned
SubmitTurn(r, text, llm) ==
    /\ \A q \in Requests \ {r} : inflight[q].pc \in {"idle", "done"}
    /\ Submit(r, 1, text, llm)

\* extract_preferences_cached finds the key in the cache: no call is made
StepHit(r) ==
    /\ CacheGet(cache, inflight[r].text, prefs[inflight[r].s]) # 0
    /\ StepLLM(r)

\* extract_preferences_cached misses and run_with_tracking sends the call
StepCall(r) ==
    /\ inflight[r].pc = "llm"
    /\ CacheGet(cache, inflight[r].text, prefs[inflight[r].s]) = 0
    /\ inflight' = [inflight EXCEPT ![r].pc = "waiting"]
    /\ UNCHANGED <<created, prefs, alias, cache, nops, last>>

\* chain.invoke returns (or raises): the answer is parsed, stored and merged
FallbackResponds(r) ==
    /\ inflight[r].pc = "waiting"
    /\ \E x \in {ExtractPreferencesCached(World, inflight[r].s, inflight[r].text,
                                          inflight[r].llm)} :
       \E m \in {MergeLLMPreferences(x.w, inflight[r].s, inflight[r].text, x.k)} :
          /\ prefs' = m.w.prefs
          /\ alias' = m.w.alias
          /\ cache' = m.w.cache
          /\ inflight' = [inflight EXCEPT ![r].pc = IF m.raised THEN "done" ELSE "backup"]
    /\ UNCHANGED <<created, nops, last>>

NextLive ==
    \/ CreateSession(1)
    \/ \E r \in Requests, text \in LIVE_INPUTS, llm \in LIVE_ANSWERS :
           SubmitTurn(r, text, llm)
    \/ \E r \in Requests : StepNER(r)
    \/ \E r \in Requests : StepHit(r)
    \/ \E r \in Requests : StepCall(r)
    \/ \E r \in Requests : FallbackResponds(r)
    \/ \E r \in Requests : StepBackup(r)
    \/ \E r \in Requests : StepValidate(r)

\* the steps of the request's own thread are taken; the response is not
\* the program's to take
LiveFairness ==
    \A r \in Requests :
        /\ WF_vars(StepNER(r))
        /\ WF_vars(StepHit(r))
        /\ WF_vars(StepCall(r))
        /\ WF_vars(StepBackup(r))
        /\ WF_vars(StepValidate(r))

SpecLive == Init /\ [][NextLive]_vars /\ LiveFairness

-----------------------------------------------------------------------------
(* The properties.  last names the call that led to the current state and  *)
(* last.before the preferences of every session before it.                 *)

POSITIVE_FIELDS == {"brands", "colors", "categories"}

EXCLUDED_FIELDS == {"excluded_brands", "excluded_colors", "excluded_categories"}

ExcludedOf(f) ==
    CASE f = "brands" -> "excluded_brands"
      [] f = "colors" -> "excluded_colors"
      [] f = "categories" -> "excluded_categories"

Before == last.before[last.s]

After == prefs[last.s]

Updated == last.op = "update"

AppendMode == AnalyzeIntent(last.text)

\* C1: after every update_preferences call, no value is both in a positive
\* list (colors, brands, categories) and in the corresponding excluded list.
C1_ExclusionWins ==
    Updated =>
        \A f \in POSITIVE_FIELDS :
            Range(After[f]) \cap Range(After[ExcludedOf(f)]) = {}

\* C2: when a step of update_preferences raises, the preferences after the
\* call equal the preferences before it.
C2_FailedUpdateLeavesStateUnchanged ==
    (Updated /\ last.raised) => After = Before

\* C3: an update_preferences or clear_preferences call of one session changes
\* no field of the preferences of any other session.
C3_SessionIsolation ==
    last.op \in {"update", "clear"} =>
        \A t \in SessionIds \ {last.s} : prefs[t] = last.before[t]

\* a request that has begun to change the preferences and has not returned
Mutating(r) == inflight[r].pc \in {"llm", "backup", "validate"}

\* C4: for one session, at most one update_preferences execution is changing
\* the preferences at any time; the steps of two requests never alternate.
C4_OneUpdateAtATime ==
    \A r1, r2 \in Requests :
        (r1 # r2 /\ inflight[r1].s = inflight[r2].s) => ~(Mutating(r1) /\ Mutating(r2))

\* the values a turn yields for a positive list, NER first, as validation
\* leaves them
NewValues(f) ==
    LET named == ExtendNew(NER[last.text][f], last.d[f])
    IN CASE f = "brands" -> ValidateBrands(named)
         [] f = "categories" -> ValidateCategories(named).valid_categories
         [] f = "colors" -> named

\* C5: in replace mode, a positive list for which the turn yields new values
\* consists of exactly those values afterwards (less the ones the turn
\* excludes), whether they came from NER or from the fallback.
C5_ReplaceOverwrites ==
    (Updated /\ ~last.raised /\ ~AppendMode) =>
        \A f \in POSITIVE_FIELDS :
            NewValues(f) # <<>> =>
                Range(After[f]) = Range(NewValues(f)) \ Range(After[ExcludedOf(f)])

\* C6: in append mode, every value of brands, colors and categories before
\* the update is still in the list after it, unless the update put it in the
\* corresponding excluded list.
C6_AppendKeepsValues ==
    (Updated /\ AppendMode) =>
        \A f \in POSITIVE_FIELDS :
            Range(Before[f]) \subseteq
                Range(After[f]) \cup Range(After[ExcludedOf(f)])

\* C7: an update_preferences call never removes a value from excluded_colors,
\* excluded_brands or excluded_categories, in append and in replace mode.
C7_ExclusionsOnlyGrow ==
    Updated =>
        \A f \in EXCLUDED_FIELDS : Range(Before[f]) \subseteq Range(After[f])

\* a replace-mode update of a state that holds exclusions, itself excluding
\* one more value
C7_Witness ==
    /\ Updated /\ ~AppendMode /\ ~last.raised
    /\ Before.excluded_colors # <<>>
    /\ Len(After.excluded_colors) > Len(Before.excluded_colors)

\* C8: in replace mode, applying the same turn (same text, same fallback
\* answer) once more to the state it produced changes no field.
C8_ReplaceIsIdempotent ==
    (Updated /\ ~last.raised /\ ~AppendMode) =>
        \A again \in {update_preferences(World, last.s, last.text, last.d)} :
            (~again.raised /\ again.d = last.d) => again.w.prefs[last.s] = After

\* C9: with no fallback contribution, a color named by the exclusion phrase
\* of the input is in excluded_colors and not in colors afterwards, and the
\* other colors held before are kept.
C9_ExcludedColorLeavesColors ==
    (Updated /\ last.k = 0) =>
        LET named == Range(NER[last.text].excluded_colors)
        IN /\ named \subseteq Range(After.excluded_colors)
           /\ named \cap Range(After.colors) = {}
           /\ Range(Before.colors) \ named \subseteq Range(After.colors)

\* the bounds of one kind ("min", "max") stated by an input
StatedBounds(text, kind) ==
    {e.price_value : e \in {x \in Range(PriceExtract(text)) : x.price_type = kind}}

\* C10: in append mode, after an input stating lower bounds, price_min is the
\* maximum of those bounds and the price_min held before (itself the
\* maximum of the bounds stated in earlier turns); price_max likewise is the
\* minimum of the upper bounds.
C10_TightestPriceBoundWins ==
    (Updated /\ ~last.raised /\ AppendMode /\ last.k = 0) =>
        LET lower == StatedBounds(last.text, "min") \cup ({Before.price_min} \ {None})
            upper == StatedBounds(last.text, "max") \cup ({Before.price_max} \ {None})
        IN /\ StatedBounds(last.text, "min") # {} =>
                 After.price_min = CHOOSE m \in lower : \A x \in lower : x <= m
           /\ StatedBounds(last.text, "max") # {} =>
                 After.price_max = CHOOSE m \in upper : \A x \in upper : m <= x

\* the amounts N of the "around N" and "about N" statements of an input
AroundAmounts(text) ==
    {e.price_value : e \in {x \in Range(PriceExtract(text)) : x.price_type = "around"}}

\* C11: after an input stating "around N" or "about N", the fallback giving
\* no price, price_min is N less 20% of N and price_max is N plus 20% of N,
\* whatever bounds were held before.
C11_AroundSetsBand ==
    (Updated /\ last.d.price_min = None /\ last.d.price_max = None) =>
        \A n \in AroundAmounts(last.text) :
            /\ After.price_min = n - (n * 20) \div 100
            /\ After.price_max = n + (n * 20) \div 100

\* the preferences a turn of the NER pipeline alone leaves: steps 1, 3 and 4
PipelineOnly(w, s, text) ==
    ValidateAndMerge(
        BackupExclusionDetection(ApplyNERPreferences(w, s, NER[text]), s, text), s)

\* the fallback call of the last update was made and failed, or the service
\* was unavailable
FallbackFailed ==
    /\ Updated
    /\ last.fallback \in FAILURES

\* C12: when the fallback call raises, returns unparsable output or the
\* service is unavailable, the preferences after update_preferences are the
\* ones the NER pipeline alone produces from the preferences before.
C12_FallbackFailureIsPipelineOnly ==
    FallbackFailed =>
        \A p \in {PipelineOnly([prefs |-> last.before,
                                alias |-> [t \in SessionIds |-> NoAlias],
                                cache |-> <<>>], last.s, last.text)} :
            After = p.w.prefs[last.s] /\ last.raised = p.raised

\* a failed fallback call in a turn whose pipeline changes preferences that
\* were not empty
C12_Witness ==
    /\ FallbackFailed
    /\ last.fallback \in {"raises", "bad_json"}
    /\ Before.colors # <<>>
    /\ After # Before

\* C13: every update_preferences turn that has started eventually returns,
\* even when the fallback call gets no response.
C13_TurnCompletes ==
    \A r \in Requests : (inflight[r].pc = "ner") ~> (inflight[r].pc = "done")

\* the extractions of the registered extractor of a type in a result
ByExtractor(entities, type) ==
    SelectSeq(entities,
              LAMBDA x : x.entity_type = type /\ x.extraction_strategy = "extractor")

Overlapping(a, b) == a.start_pos < b.end_pos /\ a.end_pos > b.start_pos

\* C15: _deduplicate_extractions returns candidates only, no two of them
\* overlapping; every candidate it discards overlaps a kept one of at least
\* its confidence; an exact match (0.95) that only candidates of lower
\* confidence overlap is kept.
C15_DeduplicationKeepsBest ==
    last.op = "_deduplicate_extractions" =>
        LET cands == Range(last.extractions)
            kept == last.filtered
        IN /\ Range(kept) \subseteq cands
           /\ \A i, j \in 1..Len(kept) : i # j => ~Overlapping(kept[i], kept[j])
           /\ \A c \in cands \ Range(kept) :
                  \E k \in Range(kept) : Overlapping(c, k) /\ k.confidence >= c.confidence
           /\ \A e \in cands :
                  (/\ e.confidence = 95
                   /\ \A c \in cands \ {e} : Overlapping(c, e) => c.confidence < 95)
                      => e \in Range(kept)

\* a fuzzy match found before an exact match it overlaps: the exact one is
\* kept, the fuzzy one discarded
C15_Witness ==
    /\ last.op = "_deduplicate_extractions"
    /\ Len(last.extractions) >= 2
    /\ last.extractions[1].confidence = 70
    /\ last.extractions[2].confidence = 95
    /\ Overlapping(last.extractions[1], last.extractions[2])
    /\ last.extractions[2] \in Range(last.filtered)
    /\ last.extractions[1] \notin Range(last.filtered)

\* the last call was an update by either method and no step of it raised
Completed == last.op \in {"update", "update_with_metadata"} /\ ~last.raised

\* C16: after every update_preferences or update_preferences_with_metadata
\* call that completes, every element of brands is a valid brand in its
\* canonical spelling.
C16_BrandsAreCanonical ==
    Completed => Range(After.brands) \subseteq VALID_BRANDS

\* the categories a turn proposes: those of the NER pass and of the fallback
CandidateCategories == Range(NER[last.text].categories) \cup Range(last.d.categories)

\* a category string that is no valid category, whatever its case, and no
\* key of the correction table
Unresolvable(c) ==
    Lower(c) \notin BAG_CATEGORIES /\ ~HasCorrection(CATEGORY_CORRECTIONS, Lower(c))

\* C17: after an update_preferences call in which no step raised, every
\* element of categories is a category of the valid set in its canonical
\* spelling, and a proposed category that resolves to none is in features
\* and not in categories.
C17_CategoriesAreCanonical ==
    (Updated /\ ~last.raised) =>
        /\ Range(After.categories) \subseteq BAG_CATEGORIES
        /\ \A c \in CandidateCategories :
               Unresolvable(c) =>
                   c \notin Range(After.categories) /\ c \in Range(After.features)

\* a list holds no value twice, compared in lower case
NoDuplicates(xs) ==
    \A i, j \in 1..Len(xs) : i # j => Lower(xs[i]) # Lower(xs[j])

\* C18: after any sequence of update_preferences calls in which no step
\* raised, no list of the preferences holds a value twice, compared without
\* regard to case, and 'tote' is not in features.
C18_NoDuplicateValues ==
    (Updated /\ ~last.raised) =>
        /\ \A f \in Range(LIST_FIELDS) : NoDuplicates(After[f])
        /\ "tote" \notin Range(After.features)

\* C19: after an update_preferences call in which no step raised, no
\* element of features matches a pattern of the UI-command extractor,
\* whether it came from the features of the fallback answer or from a
\* category that validation moved to features.
C19_NoUICommandInFeatures ==
    (Updated /\ ~last.raised) =>
        \A x \in Range(After.features) : ~IsUICommand(x)


\* a reset command was processed by process_message
ResetCommands ==
    { <<"clear", "preferences">>, <<"reset", "preferences">>, <<"start", "over">> }

\* C20: after process_message has processed a reset command, every field of
\* the session's preferences is empty or None as in a newly created state,
\* whatever preferences were active before
C20_ResetClearsEverything ==
    (last.op = "process_message" /\ last.text \in ResetCommands) => After = EmptyPrefs


\* matches_preferences has been applied to a document
Matched == last.op = "matches_preferences"

\* the document's brand contains an excluded brand, or its text an excluded
\* color or an excluded category
NamesExcluded(doc, p) ==
    LET Named(excluded, str) ==
            \E x \in Range(excluded) : IsIn(LowerStr(Str(x)), LowerStr(str))
    IN \/ Named(p.excluded_brands, Join(doc.brand))
       \/ Named(p.excluded_colors, Join(doc.name \o doc.content))
       \/ Named(p.excluded_categories, Join(doc.name \o doc.content))

\* C21: matches_preferences returns False for every document whose brand
\* contains an excluded brand or whose name/content text contains an
\* excluded color or an excluded category, however many positive
\* preferences the document satisfies
C21_ExclusionRejects ==
    (Matched /\ NamesExcluded(last.doc, last.p)) => ~last.result

\* a document that satisfies a brand, a color, a category and a price bound
\* of the preferences and names an excluded color has been rejected
C21_Witness ==
    /\ Matched /\ ~last.result
    /\ NamesExcluded(last.doc, [last.p EXCEPT !.excluded_brands = <<>>,
                                               !.excluded_categories = <<>>])
    /\ last.p.brands # <<>> /\ last.p.colors # <<>> /\ last.p.categories # <<>>
    /\ last.p.price_max # None
    /\ matches_preferences(last.doc, [last.p EXCEPT !.excluded_colors = <<>>])

\* C22: for every category c and document d, if d is accepted as matching c
\* when c is the category asked for, then d is rejected when c is the
\* excluded category
C22_ExclusionMirrorsMatching ==
    \A c \in MATCH_CATEGORIES :
        ( /\ Matched
          /\ last.p.excluded_categories = <<c>>
          /\ matches_preferences(last.doc, [EmptyPrefs EXCEPT !.categories = <<c>>]) )
        => ~last.result


\* the pairs <<A, B>> of the "between A and B" statements of an input
RangePairs(text) ==
    { <<ParseFloat(text[i + 1]), ParseFloat(text[i + 3])>> :
        i \in { j \in 1..(Len(text) - 3) :
                  /\ text[j] = "between" /\ text[j + 2] \in {"and", "to"}
                  /\ ParseFloat(text[j + 1]) # None /\ ParseFloat(text[j + 3]) # None } }

\* C23: after an input stating a range "between A and B", the fallback
\* giving no price, price_min is min(A, B) and price_max is max(A, B), for
\* every pair of numbers, a lower number of 0 included, and whatever bounds
\* were held before, so that price_min <= price_max
C23_RangeSetsBothBounds ==
    (Updated /\ last.d.price_min = None /\ last.d.price_max = None) =>
        \A ab \in RangePairs(last.text) :
            /\ After.price_min = Min2(ab[1], ab[2])
            /\ After.price_max = Max2(ab[1], ab[2])
            /\ After.price_min <= After.price_max


\* C24: the values each extractor returns, and the lists _extract_with_ner
\* builds from them, are the same, in the same order, in every process:
\* they do not depend on the iteration order of the reference sets
C24_ExtractionIgnoresSetOrder ==
    last.op = "_extract_with_ner" =>
        /\ last.brand = Values(BrandExtractor(last.text, VALID_BRANDS_ITER))
        /\ last.color = Values(ColorExtractor(last.text, VALID_COLORS_ITER))
        /\ last.category = Values(CategoryExtractor(last.text, BAG_CATEGORIES_ITER))
        /\ last.ner = extract_with_ner(last.text, ITER)


\* the confidences of the extractions of a value of a type in the last turn
ConfidencesOf(entity_type, value) ==
    { e.confidence : e \in { x \in Range(last.entities[entity_type]) :
                               Lower(x.value) = Lower(value) } }

\* C25: after _extract_with_ner has recorded a turn's brands, colors and
\* categories, the confidence stored under the key of each extracted value
\* is the confidence of the extraction that produced the value, the highest
\* one when the value was extracted more than once
C25_StoredConfidenceIsTheValues ==
    last.op = "track" =>
        \A entity_type \in {"brand", "color", "category"} :
            \A e \in Range(last.entities[entity_type]) :
                LET k == PreferenceKey(entity_type, e.value)
                IN /\ k \in DOMAIN last.preference_confidence
                   /\ \A c \in ConfidencesOf(entity_type, e.value) :
                          c <= last.preference_confidence[k]
                   /\ last.preference_confidence[k] \in ConfidencesOf(entity_type, e.value)


\* process_message has processed a message that is no paging request and
\* that is_relevant_to_shopping classifies as not shopping-related
Redirected ==
    /\ last.op = "process_message"
    /\ ~IsShowMoreRequest(last.text)
    /\ ~is_relevant_to_shopping(last.text)

\* C26: for an input classified as not shopping-related, process_message
\* leaves the session's preferences unchanged and the answer returned is
\* the redirect message set by _process_input_and_route
C26_IrrelevantInputChangesNothing ==
    Redirected => (After = Before /\ last.route = "redirect")


\* process_message has processed a shopping-relevant message that is no
\* paging request and no reset command
Relevant ==
    /\ last.op = "process_message"
    /\ ~IsShowMoreRequest(last.text)
    /\ is_relevant_to_shopping(last.text)
    /\ \A p \in ResetCommands : ~Contains(last.text, p)

\* the preferences a single update_preferences call on the last message
\* would have left, the fallback answering as it did to the first update
SingleUpdate ==
    LET w == [prefs |-> last.before, alias |-> last.alias, cache |-> last.cache]
    IN update_preferences(w, last.s, last.text, last.llm[1]).w.prefs[last.s]

\* C27: processing one shopping-relevant message through process_message,
\* which updates the preferences twice, leaves them equal to the state
\* after a single update_preferences call on that message (the fallback
\* giving the same answer to both updates)
C27_DoubleUpdateIsIdempotent ==
    (Relevant /\ last.llm[1] = last.llm[2]) => After = SingleUpdate


\* C28: a fallback delta stored in the extraction cache is never altered:
\* no update or clear of any session changes the delta of an entry the
\* cache already holds
C28_CachedDeltaIsStable ==
    [][\A k \in 1..Len(cache) : k <= Len(cache') /\ cache'[k].d = cache[k].d]_vars


\* nothing more can be shown and get_next_results has returned an empty list
Exhausted ==
    /\ ~can_show_more(SearchState)
    /\ last.op = "get_next_results" /\ last.next_batch = <<>>

\* C29: after update_search_state has stored n results with k displayed,
\* the batches successive get_next_results calls return are consecutive
\* slices of the results, in order, starting at index k; displayed_count
\* never decreases from one call to the next; and after finitely many
\* calls can_show_more is false and get_next_results returns an empty list
C29_PagingIsConsecutiveAndEnds ==
    /\ [](last.op = "get_next_results" =>
            last.shown = SubSeq(last.last_search_results, last.first + 1,
                                last.first + Len(last.shown)))
    /\ [][last'.op = "get_next_results" =>
            last'.displayed_count >= last.displayed_count]_vars
    /\ (last.op = "update_search_state") ~> Exhausted

\* a second batch has been returned after a first one
C29_Witness ==
    /\ last.op = "get_next_results"
    /\ Len(last.shown) > BatchSize
    /\ last.next_batch # <<>>

\* C30: in every state of a SessionData, 0 <= displayed_count <=
\* len(last_search_results), and has_more_results is true exactly when
\* displayed_count < len(last_search_results)
C30_DisplayedCountWithinResults ==
    last.op \in {"update_search_state", "get_next_results", "clear_search_state"} =>
        /\ 0 <= last.displayed_count
        /\ last.displayed_count <= Len(last.last_search_results)
        /\ last.has_more_results <=> last.displayed_count < Len(last.last_search_results)

=============================================================================
